---- MODULE Spec2Model ----
(***************************************************************************)
(* Lesson Event Scheduling & Notification Dispatch Engine of the           *)
(* SchoolLife attendance system: the Event Materializer, the Cleanup job,  *)
(* the Notification Dispatcher, the Attendance Interaction Handler and the *)
(* Derived Record Calculator, over one recurring schedule and its          *)
(* notification configuration.                                            *)
(*                                                                         *)
(* Time is counted in minutes.  An instant is a number of minutes since    *)
(* Monday 2025-01-06 00:00 UTC; a wall time is a number of minutes since   *)
(* Monday 2025-01-06 00:00 on the Europe/Kyiv wall clock; a calendar date  *)
(* is a number of days since Monday 2025-01-06.                            *)
(***************************************************************************)
EXTENDS Integers, Sequences, FiniteSets, TLC

VARIABLES
    now,            \* the clock: the current instant (UTC minutes)
    schedule,       \* the recurring schedule row (schedules.id = ScheduleId)
    bot_schedule,   \* its notification configuration row (bot_schedules.id = BotScheduleId)
    lesson_events,  \* table lesson_events: a set of rows
    next_id,        \* the next primary key of lesson_events
    attendance,     \* table attendance: a set of rows, unique per (lesson_event_id, student_id)
    conducted,      \* table conducted_lessons: a set of rows
    payroll,        \* table payroll: a set of rows
    pay_rates,      \* table pay_rates: a set of rows
    sends,          \* chat transport: lesson_event id -> number of prompts delivered
    fired,          \* the cron jobs that have run at the current instant
    admin_ops,      \* the number of administrator's operations so far
    toggled,        \* the lesson events a toggle was processed for (history)
    last,           \* the last operation taken and what it acted on (history, read by the properties only)
    pollers,        \* concurrent poll cycles: poller -> its transaction (SpecDispatch)
    runs,           \* concurrent Event Materializer runs: run -> its position (SpecOverlap)
    generated,      \* the last call of the Recurrence Generator and its result (SpecRecurrence)
    taps            \* concurrent callback handlers: handler -> its position (SpecHandlers)

vars == <<now, schedule, bot_schedule, lesson_events, next_id, attendance,
          conducted, payroll, pay_rates, sends, fired, admin_ops, toggled, last, pollers, runs,
          generated, taps>>

----------------------------------------------------------------------------
(* Bounds of the model *)

\* The clock stops advancing after this many days.
MaxDays == 2
\* The administrator's operations (regeneration, schedule edits) of one behaviour.
MaxAdminOps == 1
\* Students enrolled in the schedule: 0..MaxStudents.
MaxStudents == 2

----------------------------------------------------------------------------
(* Time Conversion Layer: src/app/utils/timezone.py *)

DayMin == 24 * 60
WeekMin == 7 * DayMin

\* Europe/Kyiv in 2025: UTC+3 from Sunday 2025-03-30 01:00 UTC (day 83) until
\* Sunday 2025-10-26 01:00 UTC (day 293), UTC+2 otherwise.
DstStart == 83 * DayMin + 60
DstEnd == 293 * DayMin + 60

\* utcoffset of an instant.
UtcOffset(t) == IF t >= DstStart /\ t < DstEnd THEN 180 ELSE 120

\* utcoffset of a wall time (fold = 0: a wall time in the spring gap keeps the
\* offset before the switch, an ambiguous one in autumn is the first, summer one).
WallOffset(w) == IF w >= DstStart + 180 /\ w < DstEnd + 180 THEN 180 ELSE 120

\* dt_utc.astimezone(KYIV)
from_utc_to_kyiv(t) == t + UtcOffset(t)

\* dt_local.astimezone(timezone.utc)
to_utc(w) == w - WallOffset(w)

\* .date(), .weekday() (0 = Monday) and the time of day of a wall time
DateOf(w) == w \div DayMin
WeekdayOf(w) == (w \div DayMin) % 7
TimeOfDay(w) == w % DayMin

\* datetime.combine(date_obj, time_obj, tzinfo=KYIV).astimezone(timezone.utc)
combine_date_time_to_utc(date_obj, time_obj) == to_utc(date_obj * DayMin + time_obj)

\* date.today() of a process running with TZ = Europe/Kyiv
Today == DateOf(from_utc_to_kyiv(now))

\* days_ahead without the roll forward: today whenever it is the target weekday.
DaysAheadNoRoll(local_weekday, first_local, now_local, include_today) ==
    (local_weekday - WeekdayOf(first_local)) % 7

\* days_ahead of next_n_weekly
DaysAhead(local_weekday, first_local, now_local, include_today) ==
    LET d == (local_weekday - WeekdayOf(first_local)) % 7
    IN  IF d = 0
        THEN IF include_today /\ first_local > now_local THEN 0 ELSE 7
        ELSE d

\* next_n_weekly(local_weekday, local_hour, local_minute, n, include_today) called
\* at instant t, the time of day given in minutes: a sequence of n instants.
next_n_weekly(t, local_weekday, time_obj, n, include_today) ==
    LET now_local == from_utc_to_kyiv(t)
        first_local == DateOf(now_local) * DayMin + time_obj
        days_ahead == DaysAhead(local_weekday, first_local, now_local, include_today)
        first_utc == to_utc(first_local + days_ahead * DayMin)
    IN  [i \in 1..n |-> first_utc + WeekMin * (i - 1)]

----------------------------------------------------------------------------
(* The rows *)

ScheduleId == 1
BotScheduleId == 1
TeacherId == 1

\* NULL of a timestamp column.
NoTime == 0 - 1
\* NULL of idempotency_key and of a text column.
NoKey == [cfg |-> 0, date |-> NoTime]
NoText == "NULL"

\* Students 1..MaxStudents may be enrolled (table schedule_enrollments).
Students == 1..MaxStudents

\* The n of next_n_weekly in ensure_bot_schedule_has_events: 52 weekly instances.
Horizon == 52

\* The local start times and the offsets the administrator chooses from.
StartTimes == {14 * 60, 14 * 60 + 1, 16 * 60}
Offsets == {10, DayMin}

\* f"bot_schedule_{bot_schedule_id}_{target_date.strftime('%Y%m%d')}"
IdempotencyKey(bot_schedule_id, target_date) == [cfg |-> bot_schedule_id, date |-> target_date]

\* str(a) is a prefix of str(b), for positive integers.
RECURSIVE IsDecimalPrefix(_, _)
IsDecimalPrefix(a, b) ==
    IF a = b THEN TRUE
    ELSE IF b < 10 THEN FALSE
    ELSE IsDecimalPrefix(a, b \div 10)

\* LessonEvent.idempotency_key.like(f'bot_schedule_{bot_schedule_id}_%'): the text
\* after the configuration's digits is one arbitrary character (LIKE's _) and
\* anything, so the key of configuration 12 matches the pattern of configuration 1.
KeyLike(key, bot_schedule_id) ==
    key # NoKey /\ IsDecimalPrefix(bot_schedule_id, key.cfg)

\* LessonEvent(...) as ensure_bot_schedule_has_events inserts it.
NewLessonEvent(id, sch, target_date, start_at_utc, notify_at_utc, key) ==
    [id |-> id, schedule_id |-> ScheduleId, date |-> target_date,
     teacher_id |-> sch.teacher_id, status |-> "PLANNED",
     start_at |-> start_at_utc, notify_at |-> notify_at_utc,
     sent_at |-> NoTime, completed_at |-> NoTime,
     teacher_chat_id |-> sch.tg_chat_id,
     send_attempts |-> 0, last_error |-> NoText, idempotency_key |-> key]

\* The rows of Attendance, ConductedLesson and Payroll of one lesson event.
MarksOf(id) == {a \in attendance : a.lesson_event_id = id}
ConductedOf(id) == {c \in conducted : c.lesson_event_id = id}
PayrollOf(id) == {p \in payroll : p.lesson_event_id = id}
HasAttendance(id) == MarksOf(id) # {}

EventById(id) == CHOOSE e \in lesson_events : e.id = id
EventIds == {e.id : e \in lesson_events}

\* The smallest element of a non-empty set of integers.
Min(S) == CHOOSE x \in S : \A y \in S : x <= y

\* f with the count of key k raised by one (a key not in the domain counts 0).
Count(f, k) == IF k \in DOMAIN f THEN f[k] ELSE 0
Inc(f, k) == [x \in DOMAIN f \cup {k} |-> IF x = k THEN Count(f, k) + 1 ELSE f[x]]

----------------------------------------------------------------------------
(* Event Materializer: LessonEventManager.ensure_bot_schedule_has_events *)

\* The occurrences: the lesson's start instants, from the lesson's start time.
Occurrences(sch, t) == next_n_weekly(t, sch.weekday - 1, sch.start_time, Horizon, TRUE)

\* target_date = start_at_utc.astimezone(KYIV).date()
TargetDate(start_at_utc) == DateOf(from_utc_to_kyiv(start_at_utc))

\* notify_at_utc = start_at_utc - timedelta(minutes=offset_minutes)
NotifyAt(bs, start_at_utc) == start_at_utc - bs.offset_minutes

\* The occurrences of one run as rows: position, start, date and notify time.
OccurrenceRows(sch, bs, t) ==
    LET occ == Occurrences(sch, t)
    IN  {[i |-> i, start_at |-> occ[i], date |-> TargetDate(occ[i]),
          notify_at |-> NotifyAt(bs, occ[i])] : i \in 1..Horizon}

\* A lookup that never finds a row.
ExistingEventsNone(evs) == {}

\* The rows the lookup by (schedule_id, idempotency_key LIKE ...) can match.
ExistingEvents(evs) ==
    {e \in evs : e.schedule_id = ScheduleId /\ KeyLike(e.idempotency_key, BotScheduleId)}

\* .limit(1) ... scalar_one_or_none() for the date of e: e is the row found
\* (the first in primary-key order when several match).
IsFound(M, e) == \A x \in M : x.date = e.date => e.id <= x.id

\* The update of a matched row without sent_at and completed_at among its values.
UpdateExistingKeepingTimes(e, sch, o) ==
    [e EXCEPT !.start_at = o.start_at, !.notify_at = o.notify_at,
              !.teacher_chat_id = sch.tg_chat_id, !.status = "PLANNED",
              !.send_attempts = 0, !.last_error = NoText]

\* The UPDATE of an existing row: new timestamps, and back to PLANNED.
UpdateExisting(e, sch, o) ==
    [e EXCEPT !.start_at = o.start_at, !.notify_at = o.notify_at,
              !.teacher_chat_id = sch.tg_chat_id, !.status = "PLANNED",
              !.sent_at = NoTime, !.completed_at = NoTime,
              !.send_attempts = 0, !.last_error = NoText]

\* The whole run at instant t over the rows evs: the rows and the next primary
\* key after it.  The dates of one run differ, so each row is matched by at most
\* one occurrence; new rows get their keys in the order of the occurrences.
ensure_bot_schedule_has_events(evs, nid, sch, bs, t) ==
    LET O == OccurrenceRows(sch, bs, t)
        M == ExistingEvents(evs)
        dates == {e.date : e \in M}
        missing == {o \in O : o.date \notin dates}
        updated ==
            {IF e \in M /\ IsFound(M, e) /\ (\E o \in O : o.date = e.date)
             THEN UpdateExisting(e, sch, CHOOSE o \in O : o.date = e.date)
             ELSE e : e \in evs}
        created ==
            {NewLessonEvent(nid + Cardinality({m \in missing : m.i < o.i}), sch,
                            o.date, o.start_at, o.notify_at,
                            IdempotencyKey(BotScheduleId, o.date)) : o \in missing}
    IN  [lesson_events |-> updated \cup created,
         next_id |-> nid + Cardinality(missing)]

----------------------------------------------------------------------------
(* Cleanup & Regeneration Job *)

\* Absolute value.
Abs(x) == IF x < 0 THEN 0 - x ELSE x

\* A selection of the past rows that does not look at the status.
OldEventsAnyStatus(evs, today) ==
    {e \in evs : /\ e.date < today
                 /\ ~HasAttendance(e.id)
                 /\ ConductedOf(e.id) = {}}

\* cleanup_past_lesson_events, the rows selected: PLANNED, dated before today,
\* without attendance and without a conducted lesson.
OldEvents(evs, today) ==
    {e \in evs : /\ e.status = "PLANNED"
                 /\ e.date < today
                 /\ ~HasAttendance(e.id)
                 /\ ConductedOf(e.id) = {}}

\* cleanup_past_lesson_events: the rows left.  Deleting a row that payroll rows
\* still reference fails the flush; the except branch rolls the whole step back.
cleanup_past_lesson_events(evs, today) ==
    IF \E e \in OldEvents(evs, today) : PayrollOf(e.id) # {}
    THEN evs
    ELSE evs \ OldEvents(evs, today)

\* cleanup_outdated_future_events, the rows checked for one active schedule.
FutureEvents(evs, today) ==
    {e \in evs : /\ e.schedule_id = ScheduleId
                 /\ e.status = "PLANNED"
                 /\ e.date >= today
                 /\ ~HasAttendance(e.id)}

\* time_diff > 60 seconds, the instants being whole minutes.
IsOutdated(e, sch) ==
    Abs(e.start_at - combine_date_time_to_utc(e.date, sch.start_time)) * 60 > 60

OutdatedEvents(evs, sch, today) ==
    IF sch.active
    THEN {e \in FutureEvents(evs, today) : IsOutdated(e, sch)}
    ELSE {}

\* cleanup_outdated_future_events: the rows left (the same rollback on a row
\* that conducted-lesson or payroll rows reference).
cleanup_outdated_future_events(evs, sch, today) ==
    IF \E e \in OutdatedEvents(evs, sch, today) :
           PayrollOf(e.id) # {} \/ ConductedOf(e.id) # {}
    THEN evs
    ELSE evs \ OutdatedEvents(evs, sch, today)

\* ensure_events_for_next_365_days: the horizon is refilled unless the last
\* event dated today or later is dated today + 365 days or later.
NeedsRefill(evs, today) ==
    LET future == {e \in evs : e.schedule_id = ScheduleId /\ e.date >= today}
    IN  ~(\E e \in future : e.date >= today + 365)

ensure_events_for_next_365_days(evs, nid, sch, bs, t, today) ==
    IF bs.enabled /\ NeedsRefill(evs, today)
    THEN ensure_bot_schedule_has_events(evs, nid, sch, bs, t)
    ELSE [lesson_events |-> evs, next_id |-> nid]

\* _cleanup_and_regenerate_events: the three steps, each committed on its own.
cleanup_and_regenerate_events(evs, nid, sch, bs, t, today) ==
    LET step1 == cleanup_past_lesson_events(evs, today)
        step2 == cleanup_outdated_future_events(step1, sch, today)
    IN  ensure_events_for_next_365_days(step2, nid, sch, bs, t, today)

\* A variant of the daily job's threshold: a week instead of a day.
IsStalePlannedWeek(e, t) == e.status = "PLANNED" /\ e.notify_at < t - WeekMin

\* _cleanup_old_planned_events: PLANNED rows notified more than a day ago.
IsStalePlanned(e, t) == e.status = "PLANNED" /\ e.notify_at < t - DayMin

cleanup_old_planned_events(evs, t) ==
    {IF IsStalePlanned(e, t)
     THEN [e EXCEPT !.status = "SKIPPED",
                    !.last_error = "Automatically skipped - event older than 1 day"]
     ELSE e : e \in evs}

\* The cron triggers: every day at 02:00 and every Sunday at 22:00, Kyiv time.
DailyCronDue(t) == TimeOfDay(from_utc_to_kyiv(t)) = 2 * 60
WeeklyCronDue(t) ==
    /\ WeekdayOf(from_utc_to_kyiv(t)) = 6
    /\ TimeOfDay(from_utc_to_kyiv(t)) = 22 * 60

----------------------------------------------------------------------------
(* Notification Dispatcher: TelegramBotDispatcher._poll_and_send *)

\* .limit(30)
PollLimit == 30

\* The WHERE clause of the selection.
IsDue(e, t) == e.status = "PLANNED" /\ e.notify_at <= t /\ e.sent_at = NoTime

DueEvents(evs, t) == {e \in evs : IsDue(e, t)}

\* ORDER BY notify_at ASC (rows with the same notify_at in primary-key order).
Before(a, b) == a.notify_at < b.notify_at \/ (a.notify_at = b.notify_at /\ a.id < b.id)
Position(S, e) == Cardinality({x \in S : Before(x, e)})

\* The batch of one cycle out of the selectable rows S.
Batch(S) == {e \in S : Position(S, e) < PollLimit}

\* What the transport and the store do for one prompt.
Outcomes == {"ok", "send_fail", "build_fail"}

\* _send_attendance_notification on row e with outcome o: what it does.
\*   no_chat : no teacher_chat_id, return
\*   skipped : reply_markup is None (no enrolled students, or build_attendance_message
\*             caught an error and returned None)
\*   sent    : send_message returned
\*   failed  : send_message raised; the except branch rolls back
SendResult(e, sch, o) ==
    IF e.teacher_chat_id = 0 THEN "no_chat"
    ELSE IF sch.enrolled = {} \/ o = "build_fail" THEN "skipped"
    ELSE IF o = "ok" THEN "sent"
    ELSE "failed"

\* The values written when a prompt was delivered.
MarkSent(e, t) == [e EXCEPT !.sent_at = t, !.status = "SENT"]

\* The values written when there is nothing to send.
MarkSkipped(e) == [e EXCEPT !.status = "SKIPPED", !.last_error = "No students in schedule"]

\* The row after a send that raised: db.rollback(), nothing is written.
AfterSendFailure(e) == e

\* The row after _send_attendance_notification.
AfterNotification(e, sch, o, t) ==
    CASE SendResult(e, sch, o) = "sent" -> MarkSent(e, t)
      [] SendResult(e, sch, o) = "skipped" -> MarkSkipped(e)
      [] SendResult(e, sch, o) = "failed" -> AfterSendFailure(e)
      [] OTHER -> e

\* The rows of batch B a cycle gets to, given each row's outcome f[id]: the rows
\* are taken in order; db.rollback() after a failed send expires every row of the
\* session, the next row's attribute access raises outside the per-row handler
\* and ends the cycle.
Processed(B, sch, f) ==
    {e \in B : ~\E x \in B : Before(x, e) /\ SendResult(x, sch, f[x.id]) = "failed"}

\* One whole poll cycle at instant t.
poll_and_send(evs, sch, f, t) ==
    LET B == Batch(DueEvents(evs, t))
        P == Processed(B, sch, f)
    IN  {IF e \in P THEN AfterNotification(e, sch, f[e.id], t) ELSE e : e \in evs}

\* The ids of the rows of a cycle with a given result.
WithResult(evs, sch, f, t, r) ==
    {e.id : e \in {x \in Processed(Batch(DueEvents(evs, t)), sch, f) :
                       SendResult(x, sch, f[x.id]) = r}}

\* sends after delivering one prompt for every id in ids.
RECURSIVE Delivered(_, _)
Delivered(snd, ids) ==
    IF ids = {} THEN snd
    ELSE LET k == Min(ids) IN Delivered(Inc(snd, k), ids \ {k})

----------------------------------------------------------------------------
(* Derived Record Calculator *)

PresentCount(att, id) ==
    Cardinality({a \in att : a.lesson_event_id = id /\ a.status = "PRESENT"})
TotalCount(att, id) == Cardinality({a \in att : a.lesson_event_id = id})

\* PayrollService.get_active_pay_rate: the rates of the teacher active on the date.
ActiveRates(teacher_id, lesson_date) ==
    {r \in pay_rates : /\ r.teacher_id = teacher_id
                       /\ r.active_from <= lesson_date
                       /\ (r.active_to = NoTime \/ r.active_to >= lesson_date)}

\* ORDER BY active_from ASC LIMIT 1: the oldest of the rates.
OldestRate(R) == CHOOSE r \in R : \A x \in R : r.active_from <= x.active_from

\* ORDER BY active_from DESC LIMIT 1
LatestRate(R) == CHOOSE r \in R : \A x \in R : x.active_from <= r.active_from

\* PayrollService.calculate_lesson_payment
calculate_lesson_payment(att, id, pay_rate) ==
    IF pay_rate.rate_type = "PER_LESSON" THEN pay_rate.amount
    ELSE IF pay_rate.rate_type = "PER_PRESENT" THEN pay_rate.amount * PresentCount(att, id)
    ELSE 0

\* create_automatic_payroll without the has_existing_payroll check.
create_payroll_unchecked(pr, att, e) ==
    IF PresentCount(att, e.id) = 0 \/ ActiveRates(e.teacher_id, e.date) = {} THEN pr
    ELSE pr \cup {[id |-> Cardinality(pr) + 1, teacher_id |-> e.teacher_id,
                   lesson_event_id |-> e.id, basis |-> "AUTO",
                   amount |-> calculate_lesson_payment(att, e.id,
                                  LatestRate(ActiveRates(e.teacher_id, e.date)))]}

\* create_automatic_payroll without the present_count check.
create_payroll_any_presence(pr, att, e) ==
    IF {p \in pr : p.lesson_event_id = e.id} # {} THEN pr
    ELSE IF ActiveRates(e.teacher_id, e.date) = {} THEN pr
    ELSE LET amount == calculate_lesson_payment(att, e.id,
                           LatestRate(ActiveRates(e.teacher_id, e.date)))
         IN  IF amount <= 0 THEN pr
             ELSE pr \cup {[id |-> Cardinality(pr) + 1, teacher_id |-> e.teacher_id,
                            lesson_event_id |-> e.id, basis |-> "AUTO",
                            amount |-> amount]}

\* PayrollService.create_automatic_payroll: the payroll table after it, for the
\* lesson event e and the attendance table att.
create_automatic_payroll(pr, att, e) ==
    IF {p \in pr : p.lesson_event_id = e.id} # {} THEN pr
    ELSE IF PresentCount(att, e.id) = 0 THEN pr
    ELSE IF ActiveRates(e.teacher_id, e.date) = {} THEN pr
    ELSE LET amount == calculate_lesson_payment(att, e.id,
                           LatestRate(ActiveRates(e.teacher_id, e.date)))
         IN  IF amount <= 0 THEN pr
             ELSE pr \cup {[id |-> Cardinality(pr) + 1, teacher_id |-> e.teacher_id,
                            lesson_event_id |-> e.id, basis |-> "AUTO",
                            amount |-> amount]}

\* ConductedLessonService._calculate_attendance_stats and the row built from it.
NewConductedLesson(cs, att, e) ==
    [id |-> Cardinality(cs) + 1, lesson_event_id |-> e.id, teacher_id |-> e.teacher_id,
     total_students |-> TotalCount(att, e.id),
     present_students |-> PresentCount(att, e.id),
     absent_students |-> TotalCount(att, e.id) - PresentCount(att, e.id),
     is_salary_calculated |-> PresentCount(att, e.id) > 0]

\* ConductedLessonService.create_from_lesson_event: an existing row is returned
\* as it is.
create_from_lesson_event(cs, att, e) ==
    IF {c \in cs : c.lesson_event_id = e.id} # {} THEN cs
    ELSE cs \cup {NewConductedLesson(cs, att, e)}

\* ConductedLessonService.recalculate_from_attendance
recalculate_from_attendance(cs, att, id) ==
    {IF c.lesson_event_id = id /\ TotalCount(att, id) > 0
     THEN [c EXCEPT !.total_students = TotalCount(att, id),
                    !.present_students = PresentCount(att, id),
                    !.absent_students = TotalCount(att, id) - PresentCount(att, id),
                    !.is_salary_calculated = PresentCount(att, id) > 0]
     ELSE c : c \in cs}

----------------------------------------------------------------------------
(* Attendance Interaction Handler *)

\* new_status = "absent" if current_status == "present" else "present"
Flip(current_status) == IF current_status = "present" THEN "ABSENT" ELSE "PRESENT"

\* An INSERT that takes no notice of the row of the pair there may be.
save_attendance_insert(att, id, student_id, status) ==
    att \cup {[lesson_event_id |-> id, student_id |-> student_id, status |-> status]}

\* _save_attendance_status: INSERT ... ON CONFLICT DO UPDATE.
save_attendance_status(att, id, student_id, status) ==
    {a \in att : ~(a.lesson_event_id = id /\ a.student_id = student_id)}
        \cup {[lesson_event_id |-> id, student_id |-> student_id, status |-> status]}

\* Default marks that are ABSENT.
DefaultMarksAbsent(att, id, sch) ==
    {[lesson_event_id |-> id, student_id |-> s, status |-> "ABSENT"] :
        s \in {x \in sch.enrolled : ~\E a \in att : a.lesson_event_id = id /\ a.student_id = x}}

\* AttendanceService.save_attendance, step 4: a PRESENT row for every enrolled
\* student without a row (ON CONFLICT DO NOTHING).
DefaultMarks(att, id, sch) ==
    {[lesson_event_id |-> id, student_id |-> s, status |-> "PRESENT"] :
        s \in {x \in sch.enrolled : ~\E a \in att : a.lesson_event_id = id /\ a.student_id = x}}

\* AttendanceService.save_attendance, step 5.
MarkCompleted(e, t) == [e EXCEPT !.status = "COMPLETED", !.completed_at = t]

----------------------------------------------------------------------------
(* The state after construction: the schedule and its notification          *)
(* configuration have been created, and create_bot_schedule has run the     *)
(* Event Materializer once.                                                 *)

\* The pay-rate tables considered: none, a flat rate, a rate per present student.
PayRateTables ==
    {{},
     {[teacher_id |-> TeacherId, active_from |-> 0 - 7, active_to |-> NoTime,
       rate_type |-> "PER_LESSON", amount |-> 100]},
     {[teacher_id |-> TeacherId, active_from |-> 0 - 7, active_to |-> NoTime,
       rate_type |-> "PER_PRESENT", amount |-> 50]}}

Schedules ==
    {[weekday |-> 1, start_time |-> 14 * 60, teacher_id |-> TeacherId,
      tg_chat_id |-> c, active |-> TRUE, enrolled |-> 1..n] :
        c \in {0, 1001}, n \in 0..MaxStudents}

BotSchedules == {[enabled |-> TRUE, offset_minutes |-> o] : o \in Offsets}

\* The last operation of the state after construction is create_bot_schedule.
NoOp == [op |-> "create_bot_schedule", ok |-> {}, failed |-> {}, prev |-> "none", prev_ok |-> {}]
\* An operation, the rows it acted on, and the operation before it.
Did(op, ok, failed) ==
    [op |-> op, ok |-> ok, failed |-> failed, prev |-> last.op, prev_ok |-> last.ok]

\* No call of the Recurrence Generator yet.
NoCall == [at |-> NoTime, local_weekday |-> 0, time_obj |-> 0, n |-> 0,
           include_today |-> FALSE, result |-> <<>>]

\* The first instant: Sunday 2025-01-12 00:00 UTC, 02:00 in Kyiv.
StartInstant == 6 * DayMin

\* The store after construction, the schedule, its configuration and the pay
\* rates being among those given.
InitStore(schedules, bot_schedules, rate_tables) ==
    /\ now = StartInstant
    /\ schedule \in schedules
    /\ bot_schedule \in bot_schedules
    /\ lesson_events = ensure_bot_schedule_has_events({}, 1, schedule, bot_schedule, now).lesson_events
    /\ next_id = Horizon + 1
    /\ attendance = {}
    /\ conducted = {}
    /\ payroll = {}
    /\ pay_rates \in rate_tables
    /\ sends = <<>>
    /\ fired = {}
    /\ admin_ops = 0
    /\ toggled = {}
    /\ last = NoOp
    /\ generated = NoCall

Init ==
    /\ InitStore(Schedules, BotSchedules, PayRateTables)
    /\ pollers = <<>>
    /\ runs = <<>>
    /\ taps = <<>>

----------------------------------------------------------------------------
(* The operations *)

\* The instants at which something becomes possible: a cron trigger, or the
\* notify or start time of a lesson event.
CronInstants(t) ==
    LET d == DateOf(from_utc_to_kyiv(t))
        sunday == d - WeekdayOf(from_utc_to_kyiv(t)) + 6
    IN  {to_utc(x * DayMin + 2 * 60) : x \in {d, d + 1}}
            \cup {to_utc(x * DayMin + 22 * 60) : x \in {sunday, sunday + 7}}

NextInstants(t) ==
    {x \in CronInstants(t) \cup {e.notify_at : e \in lesson_events}
                           \cup {e.start_at : e \in lesson_events} : x > t}

\* Time passes until the next such instant.  A run of the Event Materializer
\* lasts less than the time between two instants.
AdvanceClockUntil(limit) ==
    /\ \A r \in DOMAIN runs : runs[r].pc = "idle"
    /\ NextInstants(now) # {}
    /\ Min(NextInstants(now)) <= limit
    /\ now' = Min(NextInstants(now))
    /\ fired' = {}
    /\ last' = Did("clock", {}, {})
    /\ UNCHANGED <<schedule, bot_schedule, lesson_events, next_id, attendance,
                   conducted, payroll, pay_rates, sends, admin_ops, toggled, pollers, runs,
                   generated, taps>>

\* The clock of the behaviours that begin at StartInstant.
AdvanceClock == AdvanceClockUntil(StartInstant + MaxDays * DayMin)

\* PUT /schedules/{id} of the bot API (update_bot_schedule): the fields are
\* set, the Event Materializer runs and the session is committed.
update_bot_schedule(enabled, offset_minutes) ==
    /\ admin_ops < MaxAdminOps
    /\ admin_ops' = admin_ops + 1
    /\ bot_schedule' = [enabled |-> enabled, offset_minutes |-> offset_minutes]
    /\ \E r \in {ensure_bot_schedule_has_events(lesson_events, next_id, schedule,
                                                bot_schedule', now)} :
           /\ lesson_events' = r.lesson_events
           /\ next_id' = r.next_id
    /\ last' = Did("update_bot_schedule", {}, {})
    /\ UNCHANGED <<now, schedule, attendance, conducted, payroll, pay_rates,
                   sends, fired, toggled, pollers, runs,
                   generated, taps>>

\* PUT /schedules/{id} (update_schedule) with a new start time.
update_schedule(start_time) ==
    /\ admin_ops < MaxAdminOps
    /\ admin_ops' = admin_ops + 1
    /\ start_time # schedule.start_time
    /\ schedule' = [schedule EXCEPT !.start_time = start_time]
    /\ last' = Did("update_schedule", {}, {})
    /\ UNCHANGED <<now, bot_schedule, lesson_events, next_id, attendance, conducted,
                   payroll, pay_rates, sends, fired, toggled, pollers, runs,
                   generated, taps>>

\* One poll cycle of the dispatcher, run alone.
PollCycle ==
    /\ DueEvents(lesson_events, now) # {}
    /\ \E f \in [{e.id : e \in Batch(DueEvents(lesson_events, now))} -> Outcomes] :
        /\ lesson_events' = poll_and_send(lesson_events, schedule, f, now)
        /\ sends' = Delivered(sends, WithResult(lesson_events, schedule, f, now, "sent"))
        /\ last' = Did("poll", WithResult(lesson_events, schedule, f, now, "sent"),
                               WithResult(lesson_events, schedule, f, now, "failed"))
    /\ UNCHANGED <<now, schedule, bot_schedule, next_id, attendance, conducted,
                   payroll, pay_rates, fired, admin_ops, toggled, pollers, runs,
                   generated, taps>>

\* The callbacks come from a delivered prompt: its lesson event and a student
\* of the schedule.
CanCallback(id) == Count(sends, id) > 0 /\ id \in EventIds

\* attendance_toggle_{id}_{student}_{current_status}: the mark is upserted and
\* synchronised with POST /api/attendance (update_if_exists), which recalculates
\* an existing conducted lesson when it can be reached.
Toggle(id, student_id, current_status, api_ok) ==
    /\ CanCallback(id)
    /\ student_id \in schedule.enrolled
    /\ attendance' = save_attendance_status(attendance, id, student_id, Flip(current_status))
    /\ conducted' = IF api_ok
                    THEN recalculate_from_attendance(conducted, attendance', id)
                    ELSE conducted
    /\ toggled' = toggled \cup {id}
    /\ last' = Did("toggle", {id}, {})
    /\ UNCHANGED <<now, schedule, bot_schedule, lesson_events, next_id, payroll,
                   pay_rates, sends, fired, admin_ops, pollers, runs,
                   generated, taps>>

\* attendance_finish_{id}: _finish_attendance, that is save_attendance (default
\* marks, COMPLETED, payroll) and then create_from_lesson_event.
Finish(id) ==
    /\ CanCallback(id)
    /\ LET e == MarkCompleted(EventById(id), now)
           att == attendance \cup DefaultMarks(attendance, id, schedule)
       IN  /\ attendance' = att
           /\ lesson_events' = (lesson_events \ {EventById(id)}) \cup {e}
           /\ payroll' = create_automatic_payroll(payroll, att, e)
           /\ conducted' = create_from_lesson_event(conducted, att, e)
    /\ last' = Did("finish", {id}, {})
    /\ UNCHANGED <<now, schedule, bot_schedule, next_id, pay_rates, sends, fired,
                   admin_ops, toggled, pollers, runs,
                   generated, taps>>

\* The daily job, at 02:00.
DailySweep ==
    /\ DailyCronDue(now)
    /\ "daily" \notin fired
    /\ fired' = fired \cup {"daily"}
    /\ lesson_events' = cleanup_old_planned_events(lesson_events, now)
    /\ last' = Did("daily", {e.id : e \in {x \in lesson_events : IsStalePlanned(x, now)}}, {})
    /\ UNCHANGED <<now, schedule, bot_schedule, next_id, attendance, conducted,
                   payroll, pay_rates, sends, admin_ops, toggled, pollers, runs,
                   generated, taps>>

\* The weekly job, on Sunday at 22:00.
WeeklyCleanup ==
    /\ WeeklyCronDue(now)
    /\ "weekly" \notin fired
    /\ fired' = fired \cup {"weekly"}
    /\ \E r \in {cleanup_and_regenerate_events(lesson_events, next_id, schedule,
                                               bot_schedule, now, Today)} :
           /\ lesson_events' = r.lesson_events
           /\ next_id' = r.next_id
    /\ last' = Did("weekly", {}, {})
    /\ UNCHANGED <<now, schedule, bot_schedule, attendance, conducted, payroll,
                   pay_rates, sends, admin_ops, toggled, pollers, runs,
                   generated, taps>>

\* The life of the lesson events: the clock, the administrator, the dispatcher,
\* the teacher finishing a lesson, and the two cron jobs.
Next ==
    \/ AdvanceClock
    \/ \E en \in BOOLEAN, o \in Offsets : update_bot_schedule(en, o)
    \/ \E st \in StartTimes : update_schedule(st)
    \/ PollCycle
    \/ \E id \in EventIds : Finish(id)
    \/ DailySweep
    \/ WeeklyCleanup

Spec == Init /\ [][Next]_vars

\* The attendance of a delivered prompt: the dispatcher, the teacher's toggles
\* and finishes, while time passes.
NextAttendance ==
    \/ AdvanceClock
    \/ PollCycle
    \/ \E id \in EventIds, s \in Students, k \in {"present", "absent"}, api_ok \in BOOLEAN :
           Toggle(id, s, k, api_ok)
    \/ \E id \in EventIds : Finish(id)

SpecAttendance == Init /\ [][NextAttendance]_vars

----------------------------------------------------------------------------
(* Concurrent poll cycles: each cycle is a database transaction of its own,  *)
(* from the SELECT ... FOR UPDATE SKIP LOCKED to the commit, the rollback or *)
(* the end of the session.                                                   *)

Pollers == {"p1", "p2"}

\* A cycle that is not running: no batch, no row locks.  seen holds the rows
\* that satisfied the WHERE clause at its last selection, all_ok whether every
\* prompt of its last cycle was built and sent without an error.
IdlePoller == [pc |-> "idle", batch |-> <<>>, locks |-> {}, seen |-> {}, all_ok |-> TRUE]

\* A selection that takes no notice of row locks.
LockedByNone(p) == {}

\* with_for_update(skip_locked=True): the rows locked by the other transactions.
LockedByOthers(p) == UNION {pollers[q].locks : q \in DOMAIN pollers \ {p}}

\* The rows of a batch as the list the cycle iterates over.
RECURSIVE InOrder(_)
InOrder(S) ==
    IF S = {} THEN <<>>
    ELSE LET e == CHOOSE x \in S : \A y \in S : x = y \/ Before(x, y)
         IN  <<e>> \o InOrder(S \ {e})

\* The cycle after the row at the head of its batch: the next row, or the end of
\* the session, which gives up the locks still held.
Advance(poller, locks, ok) ==
    IF Len(poller.batch) > 1
    THEN [poller EXCEPT !.pc = "send", !.batch = Tail(poller.batch), !.locks = locks,
                        !.all_ok = poller.all_ok /\ ok]
    ELSE [poller EXCEPT !.pc = "idle", !.batch = <<>>, !.locks = {},
                        !.all_ok = poller.all_ok /\ ok]

\* UPDATE lesson_events SET ... WHERE id = ...: the table with the row of that
\* id replaced by row.
UpdateById(evs, id, row) == {IF e.id = id THEN row ELSE e : e \in evs}

\* _poll_and_send, the selection: the due rows no other transaction has locked
\* are locked and become the batch.
PollSelect(p) ==
    /\ pollers[p].pc = "idle"
    /\ LET due == DueEvents(lesson_events, now)
           B == Batch({e \in due : e.id \notin LockedByOthers(p)})
       IN  pollers' = [pollers EXCEPT ![p] =
               [pc |-> IF B = {} THEN "idle" ELSE "send", batch |-> InOrder(B),
                locks |-> {e.id : e \in B}, seen |-> {e.id : e \in due}, all_ok |-> TRUE]]
    /\ last' = Did("select", pollers'[p].locks, {})
    /\ UNCHANGED <<now, schedule, bot_schedule, lesson_events, next_id, attendance,
                   conducted, payroll, pay_rates, sends, fired, admin_ops, toggled, runs,
                   generated, taps>>

\* _send_attendance_notification on the row at the head of the batch, up to the
\* call of send_message: nothing to do without a chat; SKIPPED and a commit when
\* there is nothing to send; a rollback that ends the cycle when the send raised.
PollSend(p, o) ==
    /\ pollers[p].pc = "send"
    /\ LET e == Head(pollers[p].batch)
           r == SendResult(e, schedule, o)
       IN  CASE r = "no_chat" ->
                  /\ pollers' = [pollers EXCEPT ![p] = Advance(@, @.locks, o = "ok")]
                  /\ UNCHANGED <<lesson_events, sends>>
             [] r = "skipped" ->
                  /\ lesson_events' = UpdateById(lesson_events, e.id, MarkSkipped(EventById(e.id)))
                  /\ pollers' = [pollers EXCEPT ![p] = Advance(@, {}, o = "ok")]
                  /\ UNCHANGED sends
             [] r = "sent" ->
                  /\ sends' = Inc(sends, e.id)
                  /\ pollers' = [pollers EXCEPT ![p].pc = "mark"]
                  /\ UNCHANGED lesson_events
             [] OTHER ->
                  /\ pollers' = [pollers EXCEPT ![p] =
                                    [@ EXCEPT !.pc = "idle", !.batch = <<>>, !.locks = {},
                                              !.all_ok = FALSE]]
                  /\ UNCHANGED <<lesson_events, sends>>
    /\ last' = Did("send", {}, {})
    /\ UNCHANGED <<now, schedule, bot_schedule, next_id, attendance, conducted,
                   payroll, pay_rates, fired, admin_ops, toggled, runs,
                   generated, taps>>

\* The row is marked as sent and the transaction committed: every lock of the
\* transaction is given up.
PollMark(p) ==
    /\ pollers[p].pc = "mark"
    /\ LET e == Head(pollers[p].batch)
       IN  /\ lesson_events' = UpdateById(lesson_events, e.id,
                                           MarkSent(EventById(e.id), now))
           /\ pollers' = [pollers EXCEPT ![p] = Advance(@, {}, TRUE)]
    /\ last' = Did("mark", {Head(pollers[p].batch).id}, {})
    /\ UNCHANGED <<now, schedule, bot_schedule, next_id, attendance, conducted,
                   payroll, pay_rates, sends, fired, admin_ops, toggled, runs,
                   generated, taps>>

InitDispatch ==
    /\ InitStore(Schedules, BotSchedules, PayRateTables)
    /\ pollers = [p \in Pollers |-> IdlePoller]
    /\ runs = <<>>
    /\ taps = <<>>

NextDispatch ==
    \/ AdvanceClock
    \/ \E p \in Pollers : PollSelect(p)
    \/ \E p \in Pollers, o \in Outcomes : PollSend(p, o)
    \/ \E p \in Pollers : PollMark(p)

SpecDispatch == InitDispatch /\ [][NextDispatch]_vars

----------------------------------------------------------------------------
(* Overlapping runs of the Event Materializer: the weekly job's refill and a  *)
(* regeneration asked for by the administrator, each in a transaction of its *)
(* own.  A run goes through the occurrences in order; a lookup reads the     *)
(* committed rows, an UPDATE locks its row until the commit and waits for a  *)
(* row another transaction has locked, an INSERT waits for nothing.          *)

Runs == {"weekly", "admin"}

\* No run: nothing pending, no row locked.
IdleRun == [pc |-> "idle", pos |-> 1, at |-> NoTime, sch |-> <<>>, bs |-> <<>>,
            locks |-> {}, updates |-> {}, inserts |-> {}]

\* A run that starts at instant t with the rows sch and bs it has loaded.
StartedRun(sch, bs, t) == [IdleRun EXCEPT !.pc = "working", !.at = t, !.sch = sch, !.bs = bs]

\* The rows the other run has locked.
RowsLockedByOthers(r) == UNION {runs[q].locks : q \in DOMAIN runs \ {r}}

\* The lookups of the occurrences O over the rows M: the pairs of an occurrence
\* and the row found for it.
Lookups(O, M) == {p \in O \X M : p[2].date = p[1].date /\ IsFound(M, p[2])}

\* The run goes on from its position until the first occurrence whose row the
\* other run has locked (held), or to the end of the horizon: the rows found are
\* locked and updated, the others inserted, nothing committed yet.  The run and
\* the next primary key after it.
run_until_blocked(run, evs, held, nid) ==
    LET O == {o \in OccurrenceRows(run.sch, run.bs, run.at) : o.i >= run.pos}
        M == ExistingEvents(evs)
        F == Lookups(O, M)
        waits == {p[1].i : p \in {q \in F : q[2].id \in held}}
        stop == IF waits = {} THEN Horizon + 1 ELSE Min(waits)
        found == {p \in F : p[1].i < stop}
        dates == {e.date : e \in M}
        missing == {o \in O : o.i < stop /\ o.date \notin dates}
    IN  [run |-> [run EXCEPT
                     !.pc = IF stop > Horizon THEN "flushed" ELSE "working",
                     !.pos = stop,
                     !.locks = @ \cup {p[2].id : p \in found},
                     !.updates = @ \cup {UpdateExisting(p[2], run.sch, p[1]) : p \in found},
                     !.inserts = @ \cup
                        {NewLessonEvent(nid + Cardinality({m \in missing : m.i < o.i}),
                                        run.sch, o.date, o.start_at, o.notify_at,
                                        IdempotencyKey(BotScheduleId, o.date)) : o \in missing}],
         next_id |-> nid + Cardinality(missing)]

\* A step of a run that is not waiting for a lock.
RunWork(r) ==
    /\ runs[r].pc = "working"
    /\ \E w \in {run_until_blocked(runs[r], lesson_events, RowsLockedByOthers(r), next_id)} :
           /\ w.run.pos > runs[r].pos
           /\ runs' = [runs EXCEPT ![r] = w.run]
           /\ next_id' = w.next_id
    /\ last' = Did("run", {}, {})
    /\ UNCHANGED <<now, schedule, bot_schedule, lesson_events, attendance, conducted,
                   payroll, pay_rates, sends, fired, admin_ops, toggled, pollers,
                   generated, taps>>

\* db.commit() of the caller: the run's rows become visible, its locks are gone.
RunCommit(r) ==
    /\ runs[r].pc = "flushed"
    /\ LET ids == {u.id : u \in runs[r].updates}
       IN  lesson_events' =
              {e \in lesson_events : e.id \notin ids}
                 \cup {u \in runs[r].updates : u.id \in EventIds}
                 \cup runs[r].inserts
    /\ runs' = [runs EXCEPT ![r] = IdleRun]
    /\ last' = Did("commit", {e.id : e \in runs[r].inserts}, {})
    /\ UNCHANGED <<now, schedule, bot_schedule, next_id, attendance, conducted,
                   payroll, pay_rates, sends, fired, admin_ops, toggled, pollers,
                   generated, taps>>

\* The weekly job: the two cleanup steps, each committed, and then the refill
\* of an enabled configuration begins.
WeeklyBegin ==
    /\ WeeklyCronDue(now)
    /\ "weekly" \notin fired
    /\ \A r \in Runs : runs[r].pc = "idle"
    /\ fired' = fired \cup {"weekly"}
    /\ lesson_events' = cleanup_outdated_future_events(
                            cleanup_past_lesson_events(lesson_events, Today), schedule, Today)
    /\ runs' = IF bot_schedule.enabled /\ NeedsRefill(lesson_events', Today)
               THEN [runs EXCEPT !["weekly"] = StartedRun(schedule, bot_schedule, now)]
               ELSE runs
    /\ last' = Did("weekly", {}, {})
    /\ UNCHANGED <<now, schedule, bot_schedule, next_id, attendance, conducted,
                   payroll, pay_rates, sends, admin_ops, toggled, pollers,
                   generated, taps>>

\* PUT /schedules/{id} of the bot API with the values the configuration has:
\* the Event Materializer begins.
AdminBegin ==
    /\ runs["admin"].pc = "idle"
    /\ runs' = [runs EXCEPT !["admin"] = StartedRun(schedule, bot_schedule, now)]
    /\ last' = Did("update_bot_schedule", {}, {})
    /\ UNCHANGED <<now, schedule, bot_schedule, lesson_events, next_id, attendance,
                   conducted, payroll, pay_rates, sends, fired, admin_ops, toggled, pollers,
                   generated, taps>>

\* The overlap of two runs does not depend on the teacher's chat, the students
\* or the pay rates: one schedule, with a chat and MaxStudents students.
InitOverlap ==
    /\ InitStore({sch \in Schedules : sch.tg_chat_id # 0 /\ Cardinality(sch.enrolled) = MaxStudents},
                 BotSchedules, {{}})
    /\ pollers = <<>>
    /\ runs = [r \in Runs |-> IdleRun]
    /\ taps = <<>>

NextOverlap ==
    \/ AdvanceClock
    \/ \E st \in StartTimes : update_schedule(st)
    \/ WeeklyBegin
    \/ AdminBegin
    \/ \E r \in Runs : RunWork(r)
    \/ \E r \in Runs : RunCommit(r)

SpecOverlap == InitOverlap /\ [][NextOverlap]_vars

----------------------------------------------------------------------------
(* The Recurrence Generator and the Event Materializer as functions of the    *)
(* instant of the call: next_n_weekly called with any weekday and time, and   *)
(* a configuration created and regenerated for a schedule of any weekday and  *)
(* start time, on days around the changes of the zone's offset.                *)

\* The largest n of a call of next_n_weekly.
MaxN == 3

\* The instants of the calls: Sunday 2025-01-12, Monday 2025-01-13, Sunday
\* 2025-03-30 and Sunday 2025-10-26 (the two changes of the offset), at minutes
\* of the UTC day around the changes, around 14:00 and around midnight in Kyiv.
CallDays == {6, 7, 83, 293}
CallMinutes == {0, 59, 60, 61, 90, 12 * 60 - 1, 12 * 60, 12 * 60 + 1,
                21 * 60 + 59, 22 * 60, 23 * 60 + 59}
CallInstants == {d * DayMin + m : d \in CallDays, m \in CallMinutes}

\* The schedules: on Monday or Sunday, in the afternoon, late in the evening or
\* right after midnight.
RecurrenceSchedules ==
    {[weekday |-> w, start_time |-> st, teacher_id |-> TeacherId,
      tg_chat_id |-> 1001, active |-> TRUE, enrolled |-> Students] :
        w \in {1, 7}, st \in {14 * 60, 23 * 60 + 30, 30}}

\* The times of day of a call at instant t: a minute before the local time, the
\* local time, a minute after it, and 14:00.
CallTimes(t) ==
    LET tod == TimeOfDay(from_utc_to_kyiv(t))
    IN  {x \in {tod - 1, tod, tod + 1, 14 * 60} : x >= 0 /\ x < DayMin}

\* next_n_weekly(local_weekday, local_hour, local_minute, n, include_today)
\* is called now.
Generate(local_weekday, time_obj, n, include_today) ==
    /\ generated' = [at |-> now, local_weekday |-> local_weekday, time_obj |-> time_obj,
                     n |-> n, include_today |-> include_today,
                     result |-> next_n_weekly(now, local_weekday, time_obj, n, include_today)]
    /\ last' = Did("next_n_weekly", {}, {})
    /\ UNCHANGED <<now, schedule, bot_schedule, lesson_events, next_id, attendance,
                   conducted, payroll, pay_rates, sends, fired, admin_ops, toggled,
                   pollers, runs, taps>>

\* No notification configuration yet.
NoBotSchedule == [enabled |-> FALSE, offset_minutes |-> NoTime]

\* POST /schedules of the bot API (create_bot_schedule): refused when the
\* schedule has a configuration; the configuration is committed, and then the
\* Event Materializer runs.
create_bot_schedule(enabled, offset_minutes) ==
    /\ bot_schedule = NoBotSchedule
    /\ bot_schedule' = [enabled |-> enabled, offset_minutes |-> offset_minutes]
    /\ \E r \in {ensure_bot_schedule_has_events(lesson_events, next_id, schedule,
                                                bot_schedule', now)} :
           /\ lesson_events' = r.lesson_events
           /\ next_id' = r.next_id
    /\ last' = Did("create_bot_schedule", {}, {})
    /\ UNCHANGED <<now, schedule, attendance, conducted, payroll, pay_rates, sends,
                   fired, admin_ops, toggled, pollers, runs, generated, taps>>

\* A schedule without a configuration, at one of the instants.
InitRecurrence ==
    /\ now \in CallInstants
    /\ schedule \in RecurrenceSchedules
    /\ bot_schedule = NoBotSchedule
    /\ lesson_events = {}
    /\ next_id = 1
    /\ attendance = {}
    /\ conducted = {}
    /\ payroll = {}
    /\ pay_rates = {}
    /\ sends = <<>>
    /\ fired = {}
    /\ admin_ops = 0
    /\ toggled = {}
    /\ last = [NoOp EXCEPT !.op = "none"]
    /\ generated = NoCall
    /\ taps = <<>>
    /\ pollers = <<>>
    /\ runs = <<>>

NextRecurrence ==
    \/ \E w \in {WeekdayOf(from_utc_to_kyiv(now)), (WeekdayOf(from_utc_to_kyiv(now)) + 1) % 7},
          tm \in CallTimes(now), n \in {1, MaxN}, it \in BOOLEAN : Generate(w, tm, n, it)
    \/ \E o \in Offsets : create_bot_schedule(TRUE, o)

SpecRecurrence == InitRecurrence /\ [][NextRecurrence]_vars

----------------------------------------------------------------------------
(* The cleanup jobs over a lesson that has passed: a Saturday schedule whose  *)
(* configuration is created on Saturday morning, followed until the daily job *)
(* of Monday, through the weekly job of Sunday evening.                        *)

\* Saturday 2025-01-18 00:00 UTC, 02:00 in Kyiv.
CleanupStart == 12 * DayMin

\* The schedules: on Saturday at 14:00.
SaturdaySchedules ==
    {[weekday |-> 6, start_time |-> 14 * 60, teacher_id |-> TeacherId,
      tg_chat_id |-> c, active |-> TRUE, enrolled |-> 1..n] :
        c \in {0, 1001}, n \in {0, MaxStudents}}

\* create_bot_schedule has run the Event Materializer on Saturday morning.
InitCleanup ==
    /\ now = CleanupStart
    /\ schedule \in SaturdaySchedules
    /\ bot_schedule \in BotSchedules
    /\ lesson_events = ensure_bot_schedule_has_events({}, 1, schedule, bot_schedule, now).lesson_events
    /\ next_id = Horizon + 1
    /\ attendance = {}
    /\ conducted = {}
    /\ payroll = {}
    /\ pay_rates \in PayRateTables
    /\ sends = <<>>
    /\ fired = {}
    /\ admin_ops = 0
    /\ toggled = {}
    /\ last = NoOp
    /\ generated = NoCall
    /\ taps = <<>>
    /\ pollers = <<>>
    /\ runs = <<>>

NextCleanup ==
    \/ AdvanceClockUntil(CleanupStart + MaxDays * DayMin)
    \/ \E en \in BOOLEAN, o \in Offsets : update_bot_schedule(en, o)
    \/ \E st \in StartTimes : update_schedule(st)
    \/ PollCycle
    \/ \E id \in EventIds : Finish(id)
    \/ DailySweep
    \/ WeeklyCleanup

SpecCleanup == InitCleanup /\ [][NextCleanup]_vars

----------------------------------------------------------------------------
(* Concurrent callback handlers: the teacher's taps are handled as they come, *)
(* each handler with a session of its own.  A double tap is handled by two    *)
(* toggle handlers with the same payload; a finish is handled while they run. *)

Togglers == {"t1", "t2"}
Finisher == "f"

\* A handler that is not running.  existing holds the students that had a mark
\* when a finish read them, raised whether the save of a toggle raised.
IdleTap == [pc |-> "idle", id |-> 0, student_id |-> 0, current_status |-> "none",
            existing |-> {}, raised |-> FALSE]

\* An INSERT without a conflict clause under the unique constraint of
\* (lesson_event_id, student_id): it raises when the pair has a row.
insert_attendance_result(att, id, student_id, status) ==
    IF \E a \in att : a.lesson_event_id = id /\ a.student_id = student_id
    THEN [attendance |-> att, raised |-> TRUE]
    ELSE [attendance |-> save_attendance_insert(att, id, student_id, status), raised |-> FALSE]

\* _save_attendance_status, the statement and its commit: the table after it,
\* and whether it raised.
save_attendance_result(att, id, student_id, status) ==
    [attendance |-> save_attendance_status(att, id, student_id, status), raised |-> FALSE]

\* Default marks written over the rows there are.
insert_missing_overwrite(att, id, missing) ==
    {a \in att : ~(a.lesson_event_id = id /\ a.student_id \in missing)}
        \cup {[lesson_event_id |-> id, student_id |-> s, status |-> "PRESENT"] : s \in missing}

\* AttendanceService.save_attendance, step 4, for the students found missing at
\* step 3: INSERT ... ON CONFLICT DO NOTHING of a PRESENT row for each.
insert_missing_do_nothing(att, id, missing) ==
    att \cup {[lesson_event_id |-> id, student_id |-> s, status |-> "PRESENT"] :
                 s \in {x \in missing : ~\E a \in att : a.lesson_event_id = id /\ a.student_id = x}}

\* The teacher taps a student's button twice: two toggle events with the same
\* payload attendance_toggle_{id}_{student}_{current_status}.
DoubleTap(id, student_id, current_status) ==
    /\ CanCallback(id)
    /\ student_id \in schedule.enrolled
    /\ \A h \in Togglers : taps[h].pc \in {"idle", "done"}
    /\ taps' = [h \in DOMAIN taps |->
                   IF h \in Togglers
                   THEN [IdleTap EXCEPT !.pc = "save", !.id = id, !.student_id = student_id,
                                        !.current_status = current_status]
                   ELSE taps[h]]
    /\ last' = Did("tap", {id}, {})
    /\ UNCHANGED <<now, schedule, bot_schedule, lesson_events, next_id, attendance,
                   conducted, payroll, pay_rates, sends, fired, admin_ops, toggled,
                   pollers, runs, generated>>

\* _save_attendance_status up to the commit; when it raises, the handler rolls
\* back and is done.
ToggleSave(h) ==
    /\ taps[h].pc = "save"
    /\ \E r \in {save_attendance_result(attendance, taps[h].id, taps[h].student_id,
                                         Flip(taps[h].current_status))} :
           /\ attendance' = r.attendance
           /\ taps' = [taps EXCEPT ![h].pc = IF r.raised THEN "done" ELSE "sync",
                                    ![h].raised = r.raised]
    /\ toggled' = toggled \cup {taps[h].id}
    /\ last' = Did("toggle_save", {taps[h].id}, {})
    /\ UNCHANGED <<now, schedule, bot_schedule, lesson_events, next_id, conducted,
                   payroll, pay_rates, sends, fired, admin_ops, pollers, runs, generated>>

\* _sync_attendance_with_api: POST /api/attendance with update_if_exists writes
\* the status once more and recalculates the conducted lesson, when the API can
\* be reached.
ToggleSync(h, api_ok) ==
    /\ taps[h].pc = "sync"
    /\ attendance' = IF api_ok
                     THEN save_attendance_status(attendance, taps[h].id, taps[h].student_id,
                                                 Flip(taps[h].current_status))
                     ELSE attendance
    /\ conducted' = IF api_ok
                    THEN recalculate_from_attendance(conducted, attendance', taps[h].id)
                    ELSE conducted
    /\ taps' = [taps EXCEPT ![h].pc = "done"]
    /\ last' = Did("toggle_sync", {taps[h].id}, {})
    /\ UNCHANGED <<now, schedule, bot_schedule, lesson_events, next_id, payroll,
                   pay_rates, sends, fired, admin_ops, toggled, pollers, runs, generated>>

\* attendance_finish_{id}: save_attendance, steps 1 to 3: the lesson event, the
\* enrolled students and the students that have a mark are read.
FinishRead(id) ==
    /\ CanCallback(id)
    /\ taps[Finisher].pc \in {"idle", "done"}
    /\ taps' = [taps EXCEPT ![Finisher] =
                   [IdleTap EXCEPT !.pc = "write", !.id = id,
                                   !.existing = {a.student_id : a \in MarksOf(id)}]]
    /\ last' = Did("finish_read", {id}, {})
    /\ UNCHANGED <<now, schedule, bot_schedule, lesson_events, next_id, attendance,
                   conducted, payroll, pay_rates, sends, fired, admin_ops, toggled,
                   pollers, runs, generated>>

\* save_attendance, steps 4 to 7 and the commit: the default marks, COMPLETED,
\* the payroll.
FinishWrite ==
    /\ taps[Finisher].pc = "write"
    /\ LET id == taps[Finisher].id
           e == MarkCompleted(EventById(id), now)
           att == insert_missing_do_nothing(attendance, id,
                                            schedule.enrolled \ taps[Finisher].existing)
       IN  /\ attendance' = att
           /\ lesson_events' = (lesson_events \ {EventById(id)}) \cup {e}
           /\ payroll' = create_automatic_payroll(payroll, att, e)
    /\ taps' = [taps EXCEPT ![Finisher].pc = "conducted"]
    /\ last' = Did("finish_write", {taps[Finisher].id}, {})
    /\ UNCHANGED <<now, schedule, bot_schedule, next_id, conducted, pay_rates, sends,
                   fired, admin_ops, toggled, pollers, runs, generated>>

\* _finish_attendance, step 2: create_from_lesson_event.
FinishConducted ==
    /\ taps[Finisher].pc = "conducted"
    /\ conducted' = create_from_lesson_event(conducted, attendance, EventById(taps[Finisher].id))
    /\ taps' = [taps EXCEPT ![Finisher].pc = "done"]
    /\ last' = Did("finish_conducted", {taps[Finisher].id}, {})
    /\ UNCHANGED <<now, schedule, bot_schedule, lesson_events, next_id, attendance,
                   payroll, pay_rates, sends, fired, admin_ops, toggled, pollers, runs,
                   generated>>

\* The rows create_bot_schedule has made at StartInstant, and the poll cycle at
\* the first notify time, every prompt of which is delivered.
Materialized(sch, bs) ==
    ensure_bot_schedule_has_events({}, 1, sch, bs, StartInstant).lesson_events
FirstNotify(evs) == Min({e.notify_at : e \in evs})
AllDelivered(evs) == [id \in {e.id : e \in evs} |-> "ok"]

\* The store after the first prompt of a schedule with a chat and students has
\* been delivered; no handler is running.
InitHandlers ==
    /\ schedule \in {sch \in Schedules : sch.tg_chat_id # 0 /\ sch.enrolled # {}}
    /\ bot_schedule \in BotSchedules
    /\ pay_rates \in PayRateTables
    /\ \E M \in {Materialized(schedule, bot_schedule)} :
           /\ now = FirstNotify(M)
           /\ lesson_events = poll_and_send(M, schedule, AllDelivered(M), now)
           /\ sends = Delivered(<<>>, WithResult(M, schedule, AllDelivered(M), now, "sent"))
    /\ next_id = Horizon + 1
    /\ attendance = {}
    /\ conducted = {}
    /\ payroll = {}
    /\ fired = {}
    /\ admin_ops = 0
    /\ toggled = {}
    /\ last = [NoOp EXCEPT !.op = "poll", !.prev = "clock"]
    /\ generated = NoCall
    /\ pollers = <<>>
    /\ runs = <<>>
    /\ taps = [h \in Togglers \cup {Finisher} |-> IdleTap]

NextHandlers ==
    \/ \E id \in EventIds, s \in Students, k \in {"present", "absent"} : DoubleTap(id, s, k)
    \/ \E h \in Togglers : ToggleSave(h)
    \/ \E h \in Togglers, api_ok \in BOOLEAN : ToggleSync(h, api_ok)
    \/ \E id \in EventIds : FinishRead(id)
    \/ FinishWrite
    \/ FinishConducted

SpecHandlers == InitHandlers /\ [][NextHandlers]_vars

----------------------------------------------------------------------------
(* The properties *)

\* The row of lesson event id after a step, when it is still there.
RowsAfter(id) == {x \in lesson_events' : x.id = id}

\* Both poll cycles have ended, each had selected while lesson event id was due,
\* and neither met an error.
BothCyclesOver(id) ==
    \A p \in Pollers :
        /\ pollers[p].pc = "idle"
        /\ id \in pollers[p].seen
        /\ pollers[p].all_ok

\* C1: with two poll cycles running concurrently, a prompt is delivered at most
\* once for a lesson event; a cycle about to mark a row as sent finds it PLANNED
\* with sent_at unset, so that the row goes from PLANNED to SENT once; and when
\* both cycles over a due lesson event with a teacher chat and an enrolled
\* student have ended, its prompt has been delivered exactly once and it is SENT.
C1_ExactlyOneSend ==
    /\ \A e \in lesson_events :
          /\ Count(sends, e.id) <= 1
          /\ e.status = "SENT" => Count(sends, e.id) = 1 /\ e.sent_at # NoTime
          /\ (e.teacher_chat_id # 0 /\ schedule.enrolled # {} /\ BothCyclesOver(e.id))
                => Count(sends, e.id) = 1 /\ e.status = "SENT"
    /\ \A p \in Pollers :
          pollers[p].pc = "mark" =>
              LET e == EventById(Head(pollers[p].batch).id)
              IN  e.status = "PLANNED" /\ e.sent_at = NoTime

\* C1, its case: two cycles selected while the same lesson event was due, both
\* have ended, and the prompt was delivered.
C1_Witness ==
    \E e \in lesson_events :
        /\ BothCyclesOver(e.id)
        /\ e.teacher_chat_id # 0
        /\ schedule.enrolled # {}
        /\ Count(sends, e.id) = 1

\* C2 (as claimed): a lesson event that has been marked SENT or COMPLETED never
\* again satisfies the dispatch selection (PLANNED, notify_at <= now, sent_at
\* unset), whatever poll cycle, Event Materializer run or cleanup run follows, so
\* its prompt is sent at most once.
C2_NeverDueAgain ==
    [][\A e \in lesson_events :
          e.status \in {"SENT", "COMPLETED"} =>
              \A x \in RowsAfter(e.id) : ~IsDue(x, now')]_vars

\* What the claim of C3 compares: the rows' dates and timestamps.
Timestamps(evs) ==
    {[id |-> e.id, date |-> e.date, start_at |-> e.start_at, notify_at |-> e.notify_at] :
        e \in evs}

\* The operation ran the Event Materializer for the configuration: creating or
\* updating it does, and so does the weekly job for an enabled configuration
\* (the horizon of 52 weeks never reaches today + 365 days).
RanMaterializer(op) ==
    \/ op \in {"create_bot_schedule", "update_bot_schedule"}
    \/ op = "weekly" /\ bot_schedule.enabled

\* C3: a second run of the Event Materializer for the same configuration, right
\* after a first one, with the clock and the schedule unchanged, leaves the same
\* rows: as many, with the same dates, start_at and notify_at.
C3_SecondRunIdentical ==
    [][(/\ RanMaterializer(last.op)
        /\ last'.op = "update_bot_schedule"
        /\ bot_schedule' = bot_schedule)
          => /\ Cardinality(lesson_events') = Cardinality(lesson_events)
             /\ Timestamps(lesson_events') = Timestamps(lesson_events)]_vars

\* C3, its case: the Event Materializer has run a second time, right after a
\* first run, over the rows of the whole horizon.
C3_Witness ==
    /\ last.op = "update_bot_schedule"
    /\ RanMaterializer(last.prev)
    /\ Cardinality(lesson_events) >= Horizon

\* C4 (as claimed): no two rows of lesson_events have the same schedule, date
\* and idempotency key.
C4_OnePerKey ==
    \A a \in lesson_events, b \in lesson_events :
        (/\ a.schedule_id = b.schedule_id
         /\ a.date = b.date
         /\ a.idempotency_key = b.idempotency_key) => a.id = b.id

\* C5 (as claimed): the weekly job leaves every lesson event that lies in the
\* future and has attendance marks exactly as it was.
C5_AttendedUntouched ==
    [][last'.op = "weekly" =>
          \A e \in lesson_events :
              (e.start_at > now /\ HasAttendance(e.id)) => e \in lesson_events']_vars

\* The rows the weekly job has to replace after a change of the start time:
\* future, PLANNED, without attendance, the stored start_at no longer matching.
StaleRows == OutdatedEvents(lesson_events, schedule, Today)

\* The start time the schedule was created with.
CreatedStartTime == 14 * 60

\* C6 (as claimed): after the start time was changed by more than a minute, the
\* weekly job deletes every stale row, and for each of their dates after today a
\* PLANNED row whose start_at is the new time on that date exists when it ends.
C6_StaleReplaced ==
    [][(last'.op = "weekly" /\ Abs(schedule.start_time - CreatedStartTime) > 1) =>
          \A e \in StaleRows :
              /\ RowsAfter(e.id) = {}
              /\ e.date > Today =>
                    \E x \in lesson_events' :
                        /\ x.date = e.date
                        /\ x.status = "PLANNED"
                        /\ x.start_at = combine_date_time_to_utc(e.date, schedule.start_time)]_vars

\* C7 (as claimed): a COMPLETED lesson event stays COMPLETED in every step.
C7_CompletedStays ==
    [][\A e \in lesson_events :
          e.status = "COMPLETED" =>
              \A x \in RowsAfter(e.id) : x.status = "COMPLETED"]_vars

\* C10 (as claimed): after a poll cycle in which the send for a lesson event
\* failed, the row is PLANNED with sent_at unset, its send_attempts is one more
\* than before and last_error holds the error.
C10_SendFailureRecorded ==
    [][last'.op = "poll" =>
          \A e \in lesson_events :
              e.id \in last'.failed =>
                  \E x \in RowsAfter(e.id) :
                      /\ x.status = "PLANNED"
                      /\ x.sent_at = NoTime
                      /\ x.send_attempts = e.send_attempts + 1
                      /\ x.last_error # NoText]_vars

\* The number of students enrolled in the schedule.
Enrolled == Cardinality(schedule.enrolled)

\* C8: the conducted lesson of a lesson event no toggle was processed for counts
\* every enrolled student as present: total = N, present = N, absent = 0.
C8_DefaultAttendance ==
    \A c \in conducted :
        (c.lesson_event_id \notin toggled /\ Enrolled >= 1) =>
            /\ c.total_students = Enrolled
            /\ c.present_students = Enrolled
            /\ c.absent_students = 0

\* C8, its case: a lesson with MaxStudents enrolled students was finished
\* without a toggle.
C8_Witness ==
    /\ last.op = "finish"
    /\ Enrolled = MaxStudents
    /\ \E c \in conducted : c.lesson_event_id \in last.ok /\ c.lesson_event_id \notin toggled

\* The lesson event has a present student and its teacher an active pay rate
\* with a positive amount.
Payable(id) ==
    /\ PresentCount(attendance, id) >= 1
    /\ \E e \in lesson_events :
          /\ e.id = id
          /\ ActiveRates(e.teacher_id, e.date) # {}
          /\ LatestRate(ActiveRates(e.teacher_id, e.date)).amount > 0

\* C9: a second finish right after a first one on the same lesson event creates
\* nothing and changes nothing in payroll and conducted lessons; a payable
\* lesson event has exactly one payroll row and exactly one conducted lesson.
C9_SecondRunCreatesNothing ==
    [][\A id \in EventIds :
          (last.op = "finish" /\ last.ok = {id} /\ last'.op = "finish" /\ last'.ok = {id}) =>
              /\ payroll' = payroll
              /\ conducted' = conducted
              /\ Payable(id) =>
                    /\ Cardinality({p \in payroll' : p.lesson_event_id = id}) = 1
                    /\ Cardinality({c \in conducted' : c.lesson_event_id = id}) = 1]_vars

\* C9, its case: a payable lesson event was finished twice in succession.
C9_Witness ==
    /\ last.op = "finish"
    /\ last.prev = "finish"
    /\ last.prev_ok = last.ok
    /\ \E id \in last.ok : Payable(id) /\ PayrollOf(id) # {} /\ ConductedOf(id) # {}

\* C11 (as claimed): in a poll cycle over a schedule without enrolled students,
\* no prompt is delivered for a row of the batch that has a teacher chat, and
\* the row is SKIPPED with a reason in last_error afterwards; and a row skipped
\* for that reason never satisfies the dispatch selection again.
C11_NoStudentsSkipped ==
    [][/\ (last'.op = "poll" /\ schedule.enrolled = {}) =>
             \A e \in {b \in Batch(DueEvents(lesson_events, now)) : b.teacher_chat_id # 0} :
                 /\ Count(sends', e.id) = Count(sends, e.id)
                 /\ \E x \in RowsAfter(e.id) :
                        x.status = "SKIPPED" /\ x.last_error # NoText
       /\ \A e \in lesson_events :
             (e.status = "SKIPPED" /\ e.last_error = "No students in schedule") =>
                 \A x \in RowsAfter(e.id) : ~IsDue(x, now')]_vars

\* The local date of the call of the Recurrence Generator, its local time of
\* day, and the local date of the first instant it returned.
CallDate == DateOf(from_utc_to_kyiv(generated.at))
CallTimeOfDay == TimeOfDay(from_utc_to_kyiv(generated.at))
FirstDate == TargetDate(generated.result[1])

\* The call was made with include_today on the target weekday.
CalledOnTargetDay ==
    /\ generated.at # NoTime
    /\ generated.include_today
    /\ generated.local_weekday = WeekdayOf(from_utc_to_kyiv(generated.at))

\* C12: a call of next_n_weekly with include_today on the target weekday returns
\* a first instant 7 days ahead when the target time is a minute before the
\* local time of the call, and a first instant today when it is a minute after;
\* today is included exactly when the target time is later than the local time
\* of the call, whatever that time is.
C12_TodayIffNotPassed ==
    CalledOnTargetDay =>
        /\ generated.time_obj = CallTimeOfDay - 1 => FirstDate = CallDate + 7
        /\ generated.time_obj = CallTimeOfDay + 1 => FirstDate = CallDate
        /\ FirstDate \in {CallDate, CallDate + 7}
        /\ FirstDate = CallDate <=> generated.time_obj > CallTimeOfDay

\* C12, its case: a call on the target weekday with the target time a minute
\* before the local time of the call.
C12_Witness ==
    /\ CalledOnTargetDay
    /\ generated.time_obj = CallTimeOfDay - 1
    /\ FirstDate = CallDate + 7

\* C13 (as claimed): every row the Event Materializer created for the schedule
\* lies on the schedule's weekday, and its start_at is the UTC instant of the
\* schedule's local start time on the row's own date, the value the weekly job
\* recomputes for that date.
C13_TimezoneCorrect ==
    \A e \in lesson_events :
        /\ e.date % 7 = schedule.weekday - 1
        /\ e.start_at = combine_date_time_to_utc(e.date, schedule.start_time)

\* The date of the first day after today that lies on the schedule's weekday.
NextWeekdayDate ==
    CHOOSE d \in (Today + 1)..(Today + 7) : d % 7 = schedule.weekday - 1

\* C14 (as claimed): a configuration with offset k created on a day that is not
\* the schedule's weekday has exactly Horizon rows, dated on the next Horizon
\* consecutive occurrences of the weekday, each dated on the local date of its
\* start_at and with notify_at = start_at - k.
C14_NextWeekdays ==
    (last.op = "create_bot_schedule" /\ Today % 7 # schedule.weekday - 1) =>
        /\ Cardinality(lesson_events) = Horizon
        /\ {e.date : e \in lesson_events} = {NextWeekdayDate + 7 * i : i \in 0..(Horizon - 1)}
        /\ \A e \in lesson_events :
              /\ e.date = TargetDate(e.start_at)
              /\ e.notify_at = e.start_at - bot_schedule.offset_minutes

\* C15: a row of lesson_events that a step removes is PLANNED and has no
\* attendance mark, no conducted lesson and no payroll row when it is removed;
\* the two deleting steps of the weekly job are the only steps that remove rows.
C15_DeletesOnlyBarePlanned ==
    [][\A e \in lesson_events :
          RowsAfter(e.id) = {} =>
              /\ last'.op = "weekly"
              /\ e.status = "PLANNED"
              /\ ~HasAttendance(e.id)
              /\ ConductedOf(e.id) = {}
              /\ PayrollOf(e.id) = {}]_vars

\* C15, its case: the weekly job has removed the row of the lesson that has
\* passed (the first row) and a stale row of the future.
C15_Witness ==
    /\ last.op = "weekly"
    /\ 1 \notin EventIds
    /\ \E id \in 2..Horizon : id \notin EventIds

\* The lesson event has derived data: attendance marks, a conducted lesson or a
\* payroll row.
HasDerivedData(id) == HasAttendance(id) \/ ConductedOf(id) # {} \/ PayrollOf(id) # {}

\* C16 (as claimed): the daily job leaves the status and the last_error of
\* every lesson event with derived data as they were.
C16_DailyKeepsDerived ==
    [][last'.op = "daily" =>
          \A e \in lesson_events :
              HasDerivedData(e.id) =>
                  \E x \in RowsAfter(e.id) :
                      x.status = e.status /\ x.last_error = e.last_error]_vars

\* The marks of a lesson event and a student, and the marks of all other pairs.
MarksOfPair(att, id, s) == {a \in att : a.lesson_event_id = id /\ a.student_id = s}
MarksOfOthers(att, id, s) == {a \in att : ~(a.lesson_event_id = id /\ a.student_id = s)}

\* The status opposite to the one the client knows.
Opposite(k) == IF k = "present" THEN "ABSENT" ELSE "PRESENT"

\* C17: a toggle for lesson event id and student s carrying the status k leaves
\* exactly one mark of the pair, with the status opposite to k; the marks of
\* all other pairs and the lesson events are as they were.
C17_ToggleUpserts ==
    [][\A id \in EventIds, s \in Students, k \in {"present", "absent"}, api_ok \in BOOLEAN :
          Toggle(id, s, k, api_ok) =>
              /\ Cardinality(MarksOfPair(attendance', id, s)) = 1
              /\ \A a \in MarksOfPair(attendance', id, s) : a.status = Opposite(k)
              /\ MarksOfOthers(attendance', id, s) = MarksOfOthers(attendance, id, s)
              /\ lesson_events' = lesson_events]_vars

\* C17, its case: with one student enrolled, two toggles of the same lesson
\* event in succession: the second one found the mark of the first.
C17_Witness ==
    /\ last.op = "toggle"
    /\ last.prev = "toggle"
    /\ last.prev_ok = last.ok
    /\ Enrolled = 1
    /\ \E id \in last.ok : Cardinality(MarksOf(id)) = 1

\* C18: two toggle handlers with the same payload, in every interleaving of
\* their steps: no save raises, and when both are done exactly one mark of the
\* pair exists, with the status a single handling leaves, the opposite of the
\* status in the payload.
C18_DuplicateTapsConverge ==
    /\ \A h \in Togglers : ~taps[h].raised
    /\ (\A h \in Togglers : taps[h].pc = "done") =>
           \A h \in Togglers :
               /\ Cardinality(MarksOfPair(attendance, taps[h].id, taps[h].student_id)) = 1
               /\ \A a \in MarksOfPair(attendance, taps[h].id, taps[h].student_id) :
                      a.status = Opposite(taps[h].current_status)

\* C18, its case: both handlers of a double tap are done, and both saved.
C18_Witness ==
    /\ \A h \in Togglers : taps[h].pc = "done" /\ ~taps[h].raised
    /\ taps["t1"].id = taps["t2"].id
    /\ taps["t1"].student_id = taps["t2"].student_id
    /\ taps["t1"].current_status = taps["t2"].current_status
    /\ MarksOfPair(attendance, taps["t1"].id, taps["t1"].student_id) # {}

\* C19: the writing step of a finish of lesson event id, whatever toggles were
\* handled before it or between its reading step and it: afterwards every
\* enrolled student has exactly one mark for id, a student without a mark has
\* got PRESENT, every mark there was is still there with its status, and the
\* lesson event is COMPLETED with completed_at set.
C19_FinishKeepsMarks ==
    [][FinishWrite =>
          /\ \A s \in schedule.enrolled :
                /\ Cardinality(MarksOfPair(attendance', taps[Finisher].id, s)) = 1
                /\ MarksOfPair(attendance, taps[Finisher].id, s) = {} =>
                      \A a \in MarksOfPair(attendance', taps[Finisher].id, s) :
                          a.status = "PRESENT"
          /\ \A a \in attendance : a \in attendance'
          /\ \E x \in RowsAfter(taps[Finisher].id) :
                x.status = "COMPLETED" /\ x.completed_at # NoTime]_vars

\* C19, its case: a finish has written after a toggle that was saved between
\* its reading step and its writing step marked a student ABSENT: the student
\* was missing when the finish read the marks and is ABSENT now.
C19_Witness ==
    /\ last.op = "finish_write"
    /\ last.prev = "toggle_save"
    /\ \E a \in MarksOf(taps[Finisher].id) :
          a.status = "ABSENT" /\ a.student_id \notin taps[Finisher].existing

----------------------------------------------------------------------------
(* Deactivation and reactivation of the schedule (src/app/api/schedules.py), *)
(* while the dispatcher, the teacher and the daily job go on.                *)

\* A variant of the UPDATE of deactivate_schedule without its date condition.
cancel_planned_any_date(evs, today) ==
    {IF e.status = "PLANNED" THEN [e EXCEPT !.status = "CANCELLED"] ELSE e : e \in evs}

\* UPDATE lesson_events SET status = 'CANCELLED'
\*   WHERE schedule_id = :id AND date >= date.today() AND status = 'PLANNED'
cancel_future_planned(evs, today) ==
    {IF e.date >= today /\ e.status = "PLANNED"
        THEN [e EXCEPT !.status = "CANCELLED"] ELSE e : e \in evs}

\* UPDATE lesson_events SET status = PLANNED
\*   WHERE schedule_id = :id AND date >= date.today() AND status = CANCELLED
restore_future_cancelled(evs, today) ==
    {IF e.date >= today /\ e.status = "CANCELLED"
        THEN [e EXCEPT !.status = "PLANNED"] ELSE e : e \in evs}

\* The rows of a status dated today or later.
FutureWithStatus(evs, today, st) ==
    {e.id : e \in {x \in evs : x.date >= today /\ x.status = st}}

\* POST /schedules/{id}/deactivate: the schedule is always set inactive, its
\* PLANNED rows from today on are cancelled, and the session is committed.
deactivate_schedule ==
    /\ schedule' = [schedule EXCEPT !.active = FALSE]
    /\ lesson_events' = cancel_future_planned(lesson_events, Today)
    /\ last' = Did("deactivate", FutureWithStatus(lesson_events, Today, "PLANNED"), {})
    /\ UNCHANGED <<now, bot_schedule, next_id, attendance, conducted, payroll,
                   pay_rates, sends, fired, admin_ops, toggled, pollers, runs,
                   generated, taps>>

\* POST /schedules/{id}/reactivate: an active schedule is answered with
\* "already_active" and nothing is written; otherwise the schedule is set
\* active, its CANCELLED rows from today on are restored, and the session is
\* committed.
reactivate_schedule ==
    /\ IF schedule.active
          THEN /\ UNCHANGED <<schedule, lesson_events>>
               /\ last' = Did("already_active", {}, {})
          ELSE /\ schedule' = [schedule EXCEPT !.active = TRUE]
               /\ lesson_events' = restore_future_cancelled(lesson_events, Today)
               /\ last' = Did("reactivate", FutureWithStatus(lesson_events, Today, "CANCELLED"), {})
    /\ UNCHANGED <<now, bot_schedule, next_id, attendance, conducted, payroll,
                   pay_rates, sends, fired, admin_ops, toggled, pollers, runs,
                   generated, taps>>

\* The schedules that are deactivated: with a teacher chat or without one.
ActivationSchedules == {s \in Schedules : s.enrolled = Students}

InitActivation ==
    /\ InitStore(ActivationSchedules, BotSchedules, PayRateTables)
    /\ pollers = <<>>
    /\ runs = <<>>
    /\ taps = <<>>

NextActivation ==
    \/ AdvanceClock
    \/ PollCycle
    \/ \E id \in EventIds : Finish(id)
    \/ DailySweep
    \/ deactivate_schedule
    \/ reactivate_schedule

SpecActivation == InitActivation /\ [][NextActivation]_vars

\* The rows whose status a step changes.
StatusChanged == {e.id : e \in {x \in lesson_events : \A y \in RowsAfter(x.id) : y.status # x.status}}

\* A step rewrites the status of the rows of ids to st and nothing else.
OnlyStatusSet(ids, st) ==
    /\ {x.id : x \in lesson_events'} = EventIds
    /\ \A e \in lesson_events :
           RowsAfter(e.id) = {IF e.id \in ids THEN [e EXCEPT !.status = st] ELSE e}

\* deactivate_schedule changes exactly the PLANNED rows dated today or later,
\* to CANCELLED.
DeactivateExact ==
    deactivate_schedule =>
        /\ StatusChanged = FutureWithStatus(lesson_events, Today, "PLANNED")
        /\ OnlyStatusSet(FutureWithStatus(lesson_events, Today, "PLANNED"), "CANCELLED")

\* reactivate_schedule of a deactivated schedule changes exactly the CANCELLED
\* rows dated today or later, to PLANNED.
ReactivateExact ==
    (reactivate_schedule /\ ~schedule.active) =>
        /\ StatusChanged = FutureWithStatus(lesson_events, Today, "CANCELLED")
        /\ OnlyStatusSet(FutureWithStatus(lesson_events, Today, "CANCELLED"), "PLANNED")

\* After a reactivation that directly follows a deactivation, every row has the
\* status it had before the deactivation: PLANNED if the deactivation cancelled
\* it (last.ok), its status between the two calls otherwise.
RoundTripRestores ==
    \A e \in lesson_events : \A x \in RowsAfter(e.id) :
        x.status = IF e.id \in last.ok THEN "PLANNED" ELSE e.status

\* C20 as stated: deactivation changes exactly the PLANNED rows dated today or
\* later to CANCELLED, reactivation changes exactly the CANCELLED rows dated
\* today or later to PLANNED, and a deactivation directly followed by a
\* reactivation leaves every row's status as it was before the deactivation.
C20_RoundTripAlways ==
    [][/\ DeactivateExact
       /\ ReactivateExact
       /\ (reactivate_schedule /\ last.op = "deactivate") => RoundTripRestores]_vars

\* C20, amended: the two exact changes as stated; a deactivation directly
\* followed by a reactivation leaves every row's status as it was before when
\* no row dated today or later was CANCELLED before the deactivation, that is
\* when the deactivation itself cancelled every such row that is now CANCELLED.
C20_RoundTripWhenNoneCancelled ==
    [][/\ DeactivateExact
       /\ ReactivateExact
       /\ (/\ reactivate_schedule
           /\ last.op = "deactivate"
           /\ FutureWithStatus(lesson_events, Today, "CANCELLED") \subseteq last.ok)
              => RoundTripRestores]_vars

\* A reactivation directly after a deactivation that cancelled rows has
\* restored them, while a PLANNED row of a past date is in the store.
C20_Witness ==
    /\ last.op = "reactivate"
    /\ last.prev = "deactivate"
    /\ last.prev_ok # {}
    /\ last.ok = last.prev_ok
    /\ \E e \in lesson_events : e.date < Today /\ e.status = "PLANNED"

----------------------------------------------------------------------------
(* A backlog: the application was stopped after the configuration was       *)
(* created and comes up two weeks later, with several lesson events due.    *)

\* Sunday 2025-01-26 18:00 UTC, 20:00 in Kyiv.
BacklogStart == 20 * DayMin + 18 * 60

\* The schedules of the backlog: with a teacher chat, with students or without.
BacklogSchedules == {s \in Schedules : s.tg_chat_id # 0 /\ s.enrolled \in {{}, Students}}

\* Nothing has run since create_bot_schedule at StartInstant; no pay rate is
\* defined.  The behaviours are followed for a day.
InitBacklog ==
    /\ now = BacklogStart
    /\ schedule \in BacklogSchedules
    /\ bot_schedule \in BotSchedules
    /\ lesson_events = ensure_bot_schedule_has_events({}, 1, schedule, bot_schedule,
                                                      StartInstant).lesson_events
    /\ next_id = Horizon + 1
    /\ attendance = {}
    /\ conducted = {}
    /\ payroll = {}
    /\ pay_rates = {}
    /\ sends = <<>>
    /\ fired = {}
    /\ admin_ops = 0
    /\ toggled = {}
    /\ last = NoOp
    /\ generated = NoCall
    /\ taps = <<>>
    /\ pollers = <<>>
    /\ runs = <<>>

NextBacklog ==
    \/ AdvanceClockUntil(BacklogStart + DayMin)
    \/ PollCycle
    \/ \E id \in EventIds : Finish(id)
    \/ DailySweep
    \/ WeeklyCleanup

SpecBacklog == InitBacklog /\ [][NextBacklog]_vars

\* The rows of the batch of a poll cycle that has just run.
BatchNow == Batch(DueEvents(lesson_events, now))

\* A row of the batch was processed by the poll cycle that has just run: its
\* prompt was delivered, its send failed, or it was marked SKIPPED; a row
\* without a teacher chat is returned from at once.
ProcessedByPoll(e) ==
    \/ e.teacher_chat_id = 0
    \/ e.id \in last'.ok
    \/ e.id \in last'.failed
    \/ \E x \in RowsAfter(e.id) : x.status = "SKIPPED"

\* C21: in a poll cycle and in a cleanup sweep, a failure on one row of the
\* batch neither keeps the other rows of the batch from being processed in the
\* same run nor undoes the outcome reached for them: every row of a poll
\* cycle's batch is processed, every delivered prompt's row is SENT, and the
\* weekly sweep deletes every row it selected that nothing references.
C21_FailureIsolated ==
    [][/\ last'.op = "poll" =>
              \A e \in BatchNow :
                  /\ ProcessedByPoll(e)
                  /\ e.id \in last'.ok => \E x \in RowsAfter(e.id) : x.status = "SENT"
       /\ last'.op = "weekly" =>
              \A e \in OldEvents(lesson_events, Today) :
                  PayrollOf(e.id) = {} => RowsAfter(e.id) = {}]_vars

----------------------------------------------------------------------------
(* The background loops that keep running: the dispatcher polls every half   *)
(* minute and the daily job fires at every 02:00 (workers/dispatcher.py,     *)
(* start_polling; src/app/workers/automation_scheduler.py, start).           *)

\* Time passes only after the daily job that is due at this instant has run:
\* the scheduler fires the cron trigger when its time comes.
Tick ==
    /\ DailyCronDue(now) => "daily" \in fired
    /\ AdvanceClockUntil(CleanupStart + MaxDays * DayMin)

\* The configuration is created on Saturday morning; no pay rate is defined.
InitLoops ==
    /\ now = CleanupStart
    /\ schedule \in SaturdaySchedules
    /\ bot_schedule \in BotSchedules
    /\ lesson_events = ensure_bot_schedule_has_events({}, 1, schedule, bot_schedule, now).lesson_events
    /\ next_id = Horizon + 1
    /\ attendance = {}
    /\ conducted = {}
    /\ payroll = {}
    /\ pay_rates = {}
    /\ sends = <<>>
    /\ fired = {}
    /\ admin_ops = 0
    /\ toggled = {}
    /\ last = NoOp
    /\ generated = NoCall
    /\ taps = <<>>
    /\ pollers = <<>>
    /\ runs = <<>>

NextLoops ==
    \/ Tick
    \/ PollCycle
    \/ DailySweep
    \/ WeeklyCleanup
    \/ \E en \in BOOLEAN, o \in Offsets : update_bot_schedule(en, o)

\* The dispatcher loop and the daily job keep running, and time passes.
SpecLoops ==
    /\ InitLoops
    /\ [][NextLoops]_vars
    /\ WF_vars(Tick)
    /\ WF_vars(PollCycle)
    /\ WF_vars(DailySweep)

\* The lesson event of an id is PLANNED with its notify time reached.
DueNow(id) == \E e \in lesson_events : e.id = id /\ e.status = "PLANNED" /\ e.notify_at <= now

\* The first lesson event, the one whose notify time and the daily job a day
\* after it lie within the days followed.
FirstEventId == 1

\* C22 as stated: a PLANNED lesson event whose notify time has been reached is
\* eventually SENT by a poll cycle or SKIPPED by the daily sweep.
C22_EventuallySentOrSkipped ==
    DueNow(FirstEventId) ~>
        \E e \in lesson_events : e.id = FirstEventId /\ e.status \in {"SENT", "COMPLETED", "SKIPPED"}

\* C22, amended: a PLANNED lesson event whose notify time has been reached
\* eventually leaves PLANNED: it is SENT, SKIPPED, or deleted by the weekly
\* sweep.
C22_EventuallyLeavesPlanned ==
    DueNow(FirstEventId) ~>
        \/ FirstEventId \notin EventIds
        \/ \E e \in lesson_events : e.id = FirstEventId /\ e.status # "PLANNED"

\* The daily sweep has marked the first lesson event SKIPPED after polls that
\* could not deliver its prompt.
C22_Witness ==
    /\ last.op = "daily"
    /\ FirstEventId \in last.ok
    /\ \E e \in lesson_events : e.id = FirstEventId /\ e.status = "SKIPPED"
    /\ Count(sends, FirstEventId) = 0

\* The counts of a conducted lesson equal the counts of the marks att of its
\* lesson event.
CountsMatch(c, att) ==
    /\ c.total_students = TotalCount(att, c.lesson_event_id)
    /\ c.present_students = PresentCount(att, c.lesson_event_id)
    /\ c.absent_students = c.total_students - c.present_students

\* C23: once a conducted lesson exists for a lesson event, after every later
\* change of the event's attendance (a toggle, with its synchronisation through
\* the API, or a further finish) its total, present and absent counts are
\* those of the event's attendance marks, absent being total - present.
C23_CountsFollowAttendance ==
    [][\A id \in EventIds :
          (/\ ConductedOf(id) # {}
           /\ last'.op \in {"toggle", "finish"}
           /\ id \in last'.ok)
              => \A c \in {x \in conducted' : x.lesson_event_id = id} :
                     CountsMatch(c, attendance')]_vars

----------------------------------------------------------------------------
(* Compensation: the pay rates of the teachers (PayRate) and the automatic  *)
(* payroll of a finished lesson (src/app/services/payroll_service.py).      *)

\* The pay rates an administrator may have defined; the first lesson is dated
\* Monday 2025-01-13, day 7.  No two rates of a teacher begin on the same day.
RateCandidates ==
    {[teacher_id |-> TeacherId, active_from |-> 0 - 7, active_to |-> NoTime,
      rate_type |-> "PER_LESSON", amount |-> 100],
     [teacher_id |-> TeacherId, active_from |-> 0, active_to |-> NoTime,
      rate_type |-> "PER_PRESENT", amount |-> 50],
     [teacher_id |-> TeacherId, active_from |-> 8, active_to |-> NoTime,
      rate_type |-> "PER_LESSON", amount |-> 300],
     [teacher_id |-> TeacherId, active_from |-> 0 - 20, active_to |-> 6,
      rate_type |-> "PER_LESSON", amount |-> 400],
     [teacher_id |-> TeacherId + 1, active_from |-> 5, active_to |-> NoTime,
      rate_type |-> "PER_LESSON", amount |-> 500],
     [teacher_id |-> TeacherId, active_from |-> 3, active_to |-> 7,
      rate_type |-> "PER_PRESENT", amount |-> 0]}

RateTables == SUBSET RateCandidates

\* The store after the first prompt of a schedule with a chat and students has
\* been delivered, with any of the pay-rate tables.
InitPayroll ==
    /\ schedule \in {sch \in Schedules : sch.tg_chat_id # 0 /\ sch.enrolled = Students}
    /\ bot_schedule = [enabled |-> TRUE, offset_minutes |-> 10]
    /\ pay_rates \in RateTables
    /\ \E M \in {Materialized(schedule, bot_schedule)} :
           /\ now = FirstNotify(M)
           /\ lesson_events = poll_and_send(M, schedule, AllDelivered(M), now)
           /\ sends = Delivered(<<>>, WithResult(M, schedule, AllDelivered(M), now, "sent"))
    /\ next_id = Horizon + 1
    /\ attendance = {}
    /\ conducted = {}
    /\ payroll = {}
    /\ fired = {}
    /\ admin_ops = 0
    /\ toggled = {}
    /\ last = [NoOp EXCEPT !.op = "poll", !.prev = "clock"]
    /\ generated = NoCall
    /\ pollers = <<>>
    /\ runs = <<>>
    /\ taps = <<>>

\* The teacher's toggles and finishes on the delivered prompt.
NextPayroll ==
    \/ \E id \in EventIds, s \in Students, k \in {"present", "absent"}, api_ok \in BOOLEAN :
           Toggle(id, s, k, api_ok)
    \/ \E id \in EventIds : Finish(id)

SpecPayroll == InitPayroll /\ [][NextPayroll]_vars

\* The conditions of an automatic payroll for the lesson event of an id, given
\* the attendance marks att: a PRESENT mark, a pay rate of its teacher active
\* on its date, and an amount above zero.
PayrollDue(id, att) ==
    /\ PresentCount(att, id) >= 1
    /\ ActiveRates(EventById(id).teacher_id, EventById(id).date) # {}
    /\ calculate_lesson_payment(att, id,
           LatestRate(ActiveRates(EventById(id).teacher_id, EventById(id).date))) > 0

\* C24: an automatic payroll row is created for a lesson event only when, at
\* that time, one of its marks is PRESENT, a pay rate of its teacher is active
\* on its date and the amount is above zero; otherwise the finish completes the
\* lesson event and creates none.
C24_PayrollOnlyWhenDue ==
    [][/\ \A p \in payroll' \ payroll :
              /\ p.basis = "AUTO"
              /\ PayrollDue(p.lesson_event_id, attendance')
              /\ p.amount > 0
       /\ \A id \in EventIds :
              (last'.op = "finish" /\ id \in last'.ok) =>
                  /\ \E x \in RowsAfter(id) : x.status = "COMPLETED"
                  /\ ~PayrollDue(id, attendance') =>
                         {p \in payroll' : p.lesson_event_id = id} = PayrollOf(id)]_vars

\* A finish has created the payroll row of a lesson with an absent student.
C24_Witness ==
    /\ last.op = "finish"
    /\ \E id \in last.ok :
           /\ Cardinality(PayrollOf(id)) = 1
           /\ \E a \in MarksOf(id) : a.status = "ABSENT"
           /\ \E a \in MarksOf(id) : a.status = "PRESENT"

----------------------------------------------------------------------------
(* Two overlapping poll cycles over a backlog of several due lesson events. *)

InitBatch ==
    /\ now = BacklogStart
    /\ schedule \in Schedules
    /\ bot_schedule \in BotSchedules
    /\ lesson_events = ensure_bot_schedule_has_events({}, 1, schedule, bot_schedule,
                                                      StartInstant).lesson_events
    /\ next_id = Horizon + 1
    /\ attendance = {}
    /\ conducted = {}
    /\ payroll = {}
    /\ pay_rates = {}
    /\ sends = <<>>
    /\ fired = {}
    /\ admin_ops = 0
    /\ toggled = {}
    /\ last = NoOp
    /\ generated = NoCall
    /\ taps = <<>>
    /\ pollers = [p \in Pollers |-> IdlePoller]
    /\ runs = <<>>

NextBatch ==
    \/ \E p \in Pollers : PollSelect(p)
    \/ \E p \in Pollers, o \in Outcomes : PollSend(p, o)
    \/ \E p \in Pollers : PollMark(p)

SpecBatch == InitBatch /\ [][NextBatch]_vars

\* The rows a running cycle has selected and not yet got to the end of.
Unfinished(p) == {pollers[p].batch[i].id : i \in 1..Len(pollers[p].batch)}

\* C25: the row locks of a poll cycle's selection protect every row of its
\* batch until the cycle has processed it: no other cycle holds a row that a
\* cycle has selected and not yet marked, and no row is sent twice.
C25_BatchRowsProtected ==
    /\ \A p \in Pollers : \A q \in Pollers \ {p} : Unfinished(p) \cap Unfinished(q) = {}
    /\ \A id \in EventIds : Count(sends, id) <= 1

----------------------------------------------------------------------------
(* Two finish events for the same lesson event handled concurrently, each   *)
(* handler with a session of its own (_finish_attendance).                  *)

Finishers == {"f1", "f2"}

\* The teacher taps finish twice: two events attendance_finish_{id}.
DoubleFinish(id) ==
    /\ CanCallback(id)
    /\ \A h \in Finishers : taps[h].pc \in {"idle", "done"}
    /\ taps' = [h \in Finishers |-> [IdleTap EXCEPT !.pc = "save", !.id = id]]
    /\ last' = Did("tap_finish", {id}, {})
    /\ UNCHANGED <<now, schedule, bot_schedule, lesson_events, next_id, attendance,
                   conducted, payroll, pay_rates, sends, fired, admin_ops, toggled,
                   pollers, runs, generated>>

\* AttendanceService.save_attendance of one handler.  Its UPDATE of the lesson
\* event takes the row lock, which the other handler's UPDATE waits for until
\* the commit, and the payroll is looked up after that UPDATE: the default
\* marks, COMPLETED and the payroll of one handler are written as one step.
FinishSave(h) ==
    /\ taps[h].pc = "save"
    /\ LET id == taps[h].id
           e == MarkCompleted(EventById(id), now)
           att == attendance \cup DefaultMarks(attendance, id, schedule)
       IN  /\ attendance' = att
           /\ lesson_events' = (lesson_events \ {EventById(id)}) \cup {e}
           /\ payroll' = create_automatic_payroll(payroll, att, e)
    /\ taps' = [taps EXCEPT ![h].pc = "check"]
    /\ last' = Did("finish_save", {taps[h].id}, {})
    /\ UNCHANGED <<now, schedule, bot_schedule, next_id, conducted, pay_rates, sends,
                   fired, admin_ops, toggled, pollers, runs, generated>>

\* create_from_lesson_event, the SELECT of an existing conducted lesson: the
\* handler returns it when there is one.
ConductedCheck(h) ==
    /\ taps[h].pc = "check"
    /\ taps' = [taps EXCEPT ![h].pc = IF ConductedOf(taps[h].id) # {} THEN "done" ELSE "insert"]
    /\ last' = Did("conducted_check", {taps[h].id}, {})
    /\ UNCHANGED <<now, schedule, bot_schedule, lesson_events, next_id, attendance,
                   conducted, payroll, pay_rates, sends, fired, admin_ops, toggled,
                   pollers, runs, generated>>

\* create_from_lesson_event, the INSERT and its commit: no constraint of
\* conducted_lessons keeps a second row of the lesson event out.
ConductedInsert(h) ==
    /\ taps[h].pc = "insert"
    /\ conducted' = conducted \cup {NewConductedLesson(conducted, attendance, EventById(taps[h].id))}
    /\ taps' = [taps EXCEPT ![h].pc = "done"]
    /\ last' = Did("conducted_insert", {taps[h].id}, {})
    /\ UNCHANGED <<now, schedule, bot_schedule, lesson_events, next_id, attendance,
                   payroll, pay_rates, sends, fired, admin_ops, toggled, pollers, runs,
                   generated>>

\* The store after the first prompt has been delivered; no handler is running.
InitFinishers ==
    /\ schedule \in {sch \in Schedules : sch.tg_chat_id # 0 /\ sch.enrolled # {}}
    /\ bot_schedule \in BotSchedules
    /\ pay_rates \in PayRateTables
    /\ \E M \in {Materialized(schedule, bot_schedule)} :
           /\ now = FirstNotify(M)
           /\ lesson_events = poll_and_send(M, schedule, AllDelivered(M), now)
           /\ sends = Delivered(<<>>, WithResult(M, schedule, AllDelivered(M), now, "sent"))
    /\ next_id = Horizon + 1
    /\ attendance = {}
    /\ conducted = {}
    /\ payroll = {}
    /\ fired = {}
    /\ admin_ops = 0
    /\ toggled = {}
    /\ last = [NoOp EXCEPT !.op = "poll", !.prev = "clock"]
    /\ generated = NoCall
    /\ pollers = <<>>
    /\ runs = <<>>
    /\ taps = [h \in Finishers |-> IdleTap]

NextFinishers ==
    \/ \E id \in EventIds, s \in Students, k \in {"present", "absent"} : Toggle(id, s, k, TRUE)
    \/ \E id \in EventIds : DoubleFinish(id)
    \/ \E h \in Finishers : FinishSave(h)
    \/ \E h \in Finishers : ConductedCheck(h)
    \/ \E h \in Finishers : ConductedInsert(h)

SpecFinishers == InitFinishers /\ [][NextFinishers]_vars

\* C26: when two finish events of a lesson event have been handled
\* concurrently, in every interleaving the lesson event has exactly one
\* conducted lesson and at most one payroll row.
C26_OneConductedOnePayroll ==
    (\A h \in Finishers : taps[h].pc = "done") =>
        \A h \in Finishers :
            /\ Cardinality(ConductedOf(taps[h].id)) = 1
            /\ Cardinality(PayrollOf(taps[h].id)) <= 1

\* C27: a poll cycle marks a lesson event SKIPPED only when its schedule has no
\* enrolled students; a failure while the students are read or the message is
\* built leaves a lesson event that has students PLANNED.
C27_SkippedOnlyWithoutStudents ==
    [][last'.op = "poll" =>
          \A e \in lesson_events :
              (e.status # "SKIPPED" /\ \E x \in RowsAfter(e.id) : x.status = "SKIPPED")
                  => schedule.enrolled = {}]_vars

----------------------------------------------------------------------------
(* Notification configurations with an explicit local notify time *)

\* The local times an administrator enters as custom_time.
CustomTimes == {9 * 60, 14 * 60 + 5}
\* The offsets of these configurations; 5 is the one create_schedule writes.
TimedOffsets == {0, 5, 10}

\* (schedule_start + timedelta(minutes=offset_minutes)).time()
TimeFromOffset(sch, offset_minutes) == (sch.start_time + offset_minutes) % DayMin

\* custom_time of a configuration made by POST /schedules of the bot API: the
\* one given, else the one computed from a non-zero offset, else none.
CreatedCustomTime(sch, offset_minutes, custom_time) ==
    IF custom_time = NoTime /\ offset_minutes # 0
    THEN TimeFromOffset(sch, offset_minutes)
    ELSE custom_time

\* custom_time after PUT /schedules/{id} of the bot API: the one given, else
\* the one computed from the offset given, else the one the row had.
UpdatedCustomTime(sch, bs, offset_minutes, custom_time) ==
    IF custom_time # NoTime THEN custom_time
    ELSE IF offset_minutes # NoTime THEN TimeFromOffset(sch, offset_minutes)
    ELSE bs.custom_time

\* PUT /schedules/{id} of the bot API with its three fields, NoTime standing
\* for a field the request leaves out: the fields are set, the Event
\* Materializer runs and the session is committed.
update_bot_schedule_time(enabled, offset_minutes, custom_time) ==
    /\ admin_ops < MaxAdminOps
    /\ admin_ops' = admin_ops + 1
    /\ bot_schedule' =
           [enabled |-> enabled,
            offset_minutes |-> IF offset_minutes # NoTime THEN offset_minutes
                               ELSE bot_schedule.offset_minutes,
            custom_time |-> UpdatedCustomTime(schedule, bot_schedule, offset_minutes,
                                              custom_time)]
    /\ \E r \in {ensure_bot_schedule_has_events(lesson_events, next_id, schedule,
                                                bot_schedule', now)} :
           /\ lesson_events' = r.lesson_events
           /\ next_id' = r.next_id
    /\ last' = Did("update_bot_schedule", {}, {})
    /\ UNCHANGED <<now, schedule, attendance, conducted, payroll, pay_rates,
                   sends, fired, toggled, pollers, runs,
                   generated, taps>>

\* The store after create_bot_schedule has written a configuration with its
\* custom_time and run the Event Materializer.
InitCustomTime ==
    /\ now = StartInstant
    /\ schedule \in BacklogSchedules
    /\ \E o \in TimedOffsets, c \in CustomTimes \cup {NoTime} :
           bot_schedule = [enabled |-> TRUE, offset_minutes |-> o,
                           custom_time |-> CreatedCustomTime(schedule, o, c)]
    /\ lesson_events = ensure_bot_schedule_has_events({}, 1, schedule, bot_schedule,
                                                      now).lesson_events
    /\ next_id = Horizon + 1
    /\ attendance = {}
    /\ conducted = {}
    /\ payroll = {}
    /\ pay_rates = {}
    /\ sends = <<>>
    /\ fired = {}
    /\ admin_ops = 0
    /\ toggled = {}
    /\ last = NoOp
    /\ generated = NoCall
    /\ pollers = <<>>
    /\ runs = <<>>
    /\ taps = <<>>

NextCustomTime ==
    \/ AdvanceClock
    \/ \E en \in BOOLEAN, o \in TimedOffsets \cup {NoTime}, c \in CustomTimes \cup {NoTime} :
           update_bot_schedule_time(en, o, c)
    \/ PollCycle
    \/ WeeklyCleanup

SpecCustomTime == InitCustomTime /\ [][NextCustomTime]_vars

\* notify_at of a row of the date given under the configuration: the explicit
\* local time on that date in UTC, else the start less the offset.
NotifyAtOfConfiguration(bs, e) ==
    IF bs.custom_time # NoTime
    THEN combine_date_time_to_utc(e.date, bs.custom_time)
    ELSE e.start_at - bs.offset_minutes

\* C28: every row a run of the Event Materializer creates or refreshes has
\* notify_at equal to the configuration's explicit local time on the row's
\* date in UTC when the configuration carries one, and start_at less the
\* offset only when it carries none.
C28_CustomTimeGoverns ==
    [][last'.op \in {"update_bot_schedule", "weekly"} =>
          \A x \in lesson_events' \ lesson_events :
              x.notify_at = NotifyAtOfConfiguration(bot_schedule', x)]_vars

----------------------------------------------------------------------------
(* The amount of an automatic payroll row *)

\* The pay rate r is one of the teacher's whose range holds the date.
InRange(r, teacher_id, lesson_date) ==
    /\ r.teacher_id = teacher_id
    /\ r.active_from <= lesson_date
    /\ (r.active_to = NoTime \/ r.active_to >= lesson_date)

\* C29: the amount of an automatic payroll row is that of the pay rate of the
\* lesson's teacher with the latest active_from among those whose range holds
\* the lesson date: the flat amount of a per-lesson rate, and the amount times
\* the number of PRESENT marks of the lesson of a per-present-student rate; no
\* rate of another teacher or outside the range is used.
C29_AmountOfLatestActiveRate ==
    [][\A p \in payroll' \ payroll :
           \E r \in pay_rates :
               /\ InRange(r, EventById(p.lesson_event_id).teacher_id,
                          EventById(p.lesson_event_id).date)
               /\ \A x \in pay_rates :
                      InRange(x, EventById(p.lesson_event_id).teacher_id,
                              EventById(p.lesson_event_id).date)
                          => x.active_from <= r.active_from
               /\ p.teacher_id = r.teacher_id
               /\ p.amount =
                      IF r.rate_type = "PER_LESSON" THEN r.amount
                      ELSE r.amount * Cardinality({a \in attendance' :
                                                      /\ a.lesson_event_id = p.lesson_event_id
                                                      /\ a.status = "PRESENT"})]_vars

\* A finish has created the payroll row of a lesson with one student present
\* from a per-present-student rate, the table holding an older rate of the
\* teacher in range, a rate of the teacher that begins after the lesson and a
\* rate of another teacher.
C29_Witness ==
    /\ last.op = "finish"
    /\ \E id \in last.ok, p \in payroll :
           /\ p.lesson_event_id = id
           /\ PresentCount(attendance, id) = 1
           /\ p.amount = 50
           /\ \E r \in pay_rates : r.teacher_id # EventById(id).teacher_id
           /\ \E r \in pay_rates : /\ r.teacher_id = EventById(id).teacher_id
                                   /\ r.active_from > EventById(id).date
           /\ \E r \in pay_rates : /\ r.rate_type = "PER_LESSON"
                                   /\ InRange(r, EventById(id).teacher_id, EventById(id).date)

----------------------------------------------------------------------------
(* The lifecycle of a lesson event's status *)

\* C30: every change of a status to SENT made by a poll cycle starts from
\* PLANNED, every change to COMPLETED made by a finish starts from SENT, and
\* every change to SKIPPED or CANCELLED starts from PLANNED, whatever poll
\* cycles, finishes, cleanups and runs of the Event Materializer came before,
\* a finish after the row was reset or skipped among them.
C30_StatusLifecycle ==
    [][\A e \in lesson_events : \A x \in RowsAfter(e.id) :
           /\ (last'.op = "poll" /\ x.status = "SENT" /\ e.status # "SENT")
                  => e.status = "PLANNED"
           /\ (last'.op = "finish" /\ x.status = "COMPLETED" /\ e.status # "COMPLETED")
                  => e.status = "SENT"
           /\ (x.status \in {"SKIPPED", "CANCELLED"} /\ e.status # x.status)
                  => e.status = "PLANNED"]_vars

----------------------------------------------------------------------------
(* The instants of the Recurrence Generator *)

\* The last call of next_n_weekly was made with include_today.
CalledWithToday == generated.at # NoTime /\ generated.include_today

\* The result has n instants, each 7 days after the one before it.
WeeklySteps ==
    /\ Len(generated.result) = generated.n
    /\ \A i \in 1..(generated.n - 1) :
           generated.result[i + 1] = generated.result[i] + WeekMin

\* The first instant lies on the target weekday at the target local time.
FirstOnTarget ==
    /\ WeekdayOf(from_utc_to_kyiv(generated.result[1])) = generated.local_weekday
    /\ TimeOfDay(from_utc_to_kyiv(generated.result[1])) = generated.time_obj

\* The first instant is later than the call and at most 7 days after it.
FirstWithinWeek ==
    /\ generated.result[1] > generated.at
    /\ generated.result[1] <= generated.at + WeekMin

\* C31: a call of next_n_weekly with include_today returns n instants in
\* increasing order, consecutive ones exactly 7 days apart, the first on the
\* target weekday at the target local time, later than the call and at most
\* 7 days after it.
C31_WeeklyInstants ==
    CalledWithToday => WeeklySteps /\ FirstOnTarget /\ FirstWithinWeek

----------------------------------------------------------------------------
(* The horizon after the weekly job *)

\* The configurations of schedules on Monday or Sunday, in the afternoon, late
\* in the evening or right after midnight, created at StartInstant; the clock,
\* the dispatcher and the two cron jobs.
InitHorizon ==
    /\ InitStore(RecurrenceSchedules, BotSchedules, {{}})
    /\ pollers = <<>>
    /\ runs = <<>>
    /\ taps = <<>>

NextHorizon ==
    \/ AdvanceClock
    \/ PollCycle
    \/ DailySweep
    \/ WeeklyCleanup

SpecHorizon == InitHorizon /\ [][NextHorizon]_vars

\* The dates of the next Horizon weekly occurrences of the schedule, today's
\* among them when its start time has not passed.
NextWeeklyDates ==
    LET local == from_utc_to_kyiv(now)
        first == IF Today % 7 = schedule.weekday - 1
                    /\ schedule.start_time > TimeOfDay(local)
                 THEN Today
                 ELSE NextWeekdayDate
    IN  {first + 7 * i : i \in 0..(Horizon - 1)}

\* C32: after a weekly job the enabled configuration has one lesson event for
\* each of the next Horizon weekly dates of its schedule, and the job creates
\* no lesson event dated more than 365 days after today.
C32_HorizonCovered ==
    [][(last'.op = "weekly" /\ bot_schedule.enabled) =>
          /\ \A d \in NextWeeklyDates :
                 Cardinality({x \in lesson_events' : x.date = d}) = 1
          /\ \A x \in lesson_events' :
                 x.id \notin EventIds => x.date <= Today + 365]_vars

----------------------------------------------------------------------------
(* A deactivated schedule and the jobs that run meanwhile *)

\* The deactivations and reactivations of a schedule while the clock, the
\* dispatcher, the teacher and the two cron jobs go on.
NextDeactivated ==
    \/ AdvanceClock
    \/ PollCycle
    \/ \E id \in EventIds : Finish(id)
    \/ DailySweep
    \/ WeeklyCleanup
    \/ deactivate_schedule
    \/ reactivate_schedule

SpecDeactivated == InitActivation /\ [][NextDeactivated]_vars

\* C33: while the schedule is deactivated no lesson event of it dated today or
\* later is PLANNED, and none becomes SENT, whatever daily sweeps, weekly jobs
\* and poll cycles run between the deactivation and the reactivation.
C33_DeactivatedNotDispatched ==
    [][~schedule'.active =>
          /\ \A x \in lesson_events' : x.date >= Today' => x.status # "PLANNED"
          /\ ~schedule.active =>
                 \A e \in lesson_events : \A x \in RowsAfter(e.id) :
                     (x.date >= Today /\ x.status = "SENT") => e.status = "SENT"]_vars

----------------------------------------------------------------------------
(* A disabled notification configuration *)

\* C34: an update of the configuration to disabled creates no lesson event and
\* resets none to PLANNED, and a poll cycle sends no lesson event while the
\* configuration is disabled.
C34_DisabledIsSilent ==
    [][/\ (last'.op = "update_bot_schedule" /\ ~bot_schedule'.enabled) =>
              /\ {x.id : x \in lesson_events'} \subseteq EventIds
              /\ \A e \in lesson_events : \A x \in RowsAfter(e.id) :
                     x.status = "PLANNED" => e.status = "PLANNED"
       /\ (last'.op = "poll" /\ ~bot_schedule.enabled) =>
              \A e \in lesson_events : \A x \in RowsAfter(e.id) :
                  x.status = "SENT" => e.status = "SENT"]_vars

----------------------------------------------------------------------------
(* A change of the schedule's weekday *)

\* The weekdays an administrator moves the schedule to: Wednesday, Sunday.
NewWeekdays == {3, 7}

\* PUT /schedules/{id} (update_schedule) with a new weekday and nothing else:
\* the field is set and the session is committed.
update_schedule_weekday(weekday) ==
    /\ admin_ops < MaxAdminOps
    /\ admin_ops' = admin_ops + 1
    /\ weekday # schedule.weekday
    /\ schedule' = [schedule EXCEPT !.weekday = weekday]
    /\ last' = Did("update_schedule", {}, {})
    /\ UNCHANGED <<now, bot_schedule, lesson_events, next_id, attendance, conducted,
                   payroll, pay_rates, sends, fired, toggled, pollers, runs,
                   generated, taps>>

\* The weekday of the schedule changes while the clock, the dispatcher and the
\* two cron jobs go on.
NextWeekday ==
    \/ AdvanceClock
    \/ \E w \in NewWeekdays : update_schedule_weekday(w)
    \/ PollCycle
    \/ DailySweep
    \/ WeeklyCleanup

SpecWeekday == InitActivation /\ [][NextWeekday]_vars

\* C35: after the weekday of the schedule was changed and the next weekly job
\* has run, every PLANNED lesson event dated today or later without attendance
\* lies on the schedule's current weekday.
C35_OldWeekdayGone ==
    (last.op = "weekly" /\ admin_ops > 0) =>
        \A e \in lesson_events :
            (e.status = "PLANNED" /\ e.date >= Today /\ ~HasAttendance(e.id))
                => e.date % 7 = schedule.weekday - 1

----------------------------------------------------------------------------
(* The core flow: every writer of a lesson event's status *)

\* The rows an administrator resets by hand: those dated up to a week ahead.
ResettableIds == {e.id : e \in {x \in lesson_events : x.date <= Today + 7}}

\* POST /reset-lesson-event/{id} (reset_lesson_event_to_planned): the row's
\* status, sent_at and completed_at are set in one UPDATE and committed.
reset_lesson_event_to_planned(id) ==
    /\ admin_ops < MaxAdminOps
    /\ admin_ops' = admin_ops + 1
    /\ id \in EventIds
    /\ lesson_events' = UpdateById(lesson_events, id,
                            [EventById(id) EXCEPT !.status = "PLANNED",
                                                  !.sent_at = NoTime,
                                                  !.completed_at = NoTime])
    /\ last' = Did("reset", {id}, {})
    /\ UNCHANGED <<now, schedule, bot_schedule, next_id, attendance, conducted,
                   payroll, pay_rates, sends, fired, toggled, pollers, runs,
                   generated, taps>>

\* The Event Materializer, the dispatcher, the teacher's finish, the two cron
\* jobs, the deactivation and reactivation of the schedule and the reset by
\* hand.
NextCore ==
    \/ AdvanceClock
    \/ \E en \in BOOLEAN, o \in Offsets : update_bot_schedule(en, o)
    \/ \E id \in ResettableIds : reset_lesson_event_to_planned(id)
    \/ PollCycle
    \/ \E id \in EventIds : Finish(id)
    \/ DailySweep
    \/ WeeklyCleanup
    \/ deactivate_schedule
    \/ reactivate_schedule

\* The configuration of a schedule with a teacher chat and students, notifying a
\* day before the lesson, created at StartInstant; no pay rate is defined.
InitCore ==
    /\ InitStore({s \in ActivationSchedules : s.tg_chat_id # 0},
                 {b \in BotSchedules : b.offset_minutes = DayMin}, {{}})
    /\ pollers = <<>>
    /\ runs = <<>>
    /\ taps = <<>>

SpecCore == InitCore /\ [][NextCore]_vars

\* C36: a PLANNED lesson event has sent_at unset and completed_at unset, so the
\* dispatcher's sent_at condition excludes no PLANNED lesson event.
C36_PlannedIsUnsent ==
    \A e \in lesson_events :
        e.status = "PLANNED" => e.sent_at = NoTime /\ e.completed_at = NoTime

\* A lesson event whose prompt was delivered is PLANNED again, after a reset by
\* hand, a run of the Event Materializer or a reactivation.
C36_Witness ==
    /\ last.op \in {"reset", "update_bot_schedule", "weekly", "reactivate"}
    /\ \E e \in lesson_events :
           /\ e.status = "PLANNED"
           /\ Count(sends, e.id) > 0
           /\ e.sent_at = NoTime

----------------------------------------------------------------------------
(* The conducted lesson's flag and the payroll *)

\* C37: whenever the conducted lesson of a lesson event has
\* is_salary_calculated set, a payroll row of that lesson event exists, after
\* the finish and after every recalculation from changed attendance.
C37_FlagMeansPayroll ==
    \A c \in conducted :
        c.is_salary_calculated => PayrollOf(c.lesson_event_id) # {}

\* C38: under a per-present-student pay rate the automatic payroll row of a
\* lesson event always equals the rate's amount times the current number of
\* PRESENT marks, also after attendance changes that follow the finish.
C38_PayrollFollowsAttendance ==
    \A p \in payroll :
        LET e == EventById(p.lesson_event_id)
            r == LatestRate(ActiveRates(e.teacher_id, e.date))
        IN  (p.basis = "AUTO" /\ r.rate_type = "PER_PRESENT") =>
                p.amount = r.amount * Cardinality({a \in MarksOf(e.id) : a.status = "PRESENT"})

----------------------------------------------------------------------------
(* A sendable lesson event behind an older one whose send keeps failing *)

\* The outcomes of a cycle when the transport works for every lesson event but
\* the first: its send may raise each time.
WorkingButFirst(ids) ==
    {f \in [ids -> Outcomes] : \A id \in ids : id # FirstEventId => f[id] = "ok"}

\* One poll cycle of the dispatcher under these outcomes.
PollCycleButFirst ==
    /\ DueEvents(lesson_events, now) # {}
    /\ \E f \in WorkingButFirst({e.id : e \in Batch(DueEvents(lesson_events, now))}) :
        /\ lesson_events' = poll_and_send(lesson_events, schedule, f, now)
        /\ sends' = Delivered(sends, WithResult(lesson_events, schedule, f, now, "sent"))
        /\ last' = Did("poll", WithResult(lesson_events, schedule, f, now, "sent"),
                               WithResult(lesson_events, schedule, f, now, "failed"))
    /\ UNCHANGED <<now, schedule, bot_schedule, next_id, attendance, conducted,
                   payroll, pay_rates, fired, admin_ops, toggled, pollers, runs,
                   generated, taps>>

\* Time passes only after the cron job that is due at this instant has run and,
\* while a lesson event is due, after a poll cycle: the dispatcher polls every
\* half minute, and the instants lie minutes apart.
TickBacklog ==
    /\ DailyCronDue(now) => "daily" \in fired
    /\ WeeklyCronDue(now) => "weekly" \in fired
    /\ DueEvents(lesson_events, now) # {} => last.op = "poll"
    /\ AdvanceClockUntil(BacklogStart + DayMin)

NextStarve ==
    \/ TickBacklog
    \/ PollCycleButFirst
    \/ DailySweep
    \/ WeeklyCleanup

\* The dispatcher loop and the two cron jobs keep running, and time passes.
SpecStarve ==
    /\ InitBacklog
    /\ [][NextStarve]_vars
    /\ WF_vars(TickBacklog)
    /\ WF_vars(PollCycleButFirst)
    /\ WF_vars(DailySweep)
    /\ WF_vars(WeeklyCleanup)

\* The lesson event of an id is due and can be sent: it has a teacher chat and
\* the schedule has students.
Sendable(id) ==
    \E e \in lesson_events :
        /\ e.id = id
        /\ IsDue(e, now)
        /\ e.teacher_chat_id # 0
        /\ schedule.enrolled # {}

\* The second lesson event, due behind the first.
SecondEventId == 2

\* C39: a due lesson event that can be sent is eventually SENT, even when the
\* send of an older due lesson event keeps failing: it is not kept out of every
\* cycle until a cleanup job takes it away unsent.
C39_SendableEventuallySent ==
    Sendable(SecondEventId) ~>
        \E e \in lesson_events : e.id = SecondEventId /\ e.status \in {"SENT", "COMPLETED"}

====
